---- MODULE Spec2Model ----
(***************************************************************************)
(* Rule evaluation and checklist-judgment engine of my-archi-2.            *)
(*                                                                         *)
(* Two server implementations are modelled:                                *)
(*   - functions/api/[[path]].js (Cloudflare Pages Functions router):      *)
(*     normalizeStatus, toNum, isMissingValue, evalCond, ruleMatches,      *)
(*     evaluateAutoRules, buildNeedKeys, computeMissingInputs,             *)
(*     judgeOneItem, includesStr, appliesToPass, mergeJudgeValues,         *)
(*     summarizeResults and the route POST /api/checklists/judge;          *)
(*   - functions/index.js (Express app): isMissing, evaluateFirstMatch,    *)
(*     buildMissingInputs, passesAppliesTo, indexRuleEngineById and the    *)
(*     route POST /api/checklists/judge.                                   *)
(*                                                                         *)
(* JavaScript values are modelled as tagged records, strings as sequences  *)
(* of one-character strings, so that trim(), toLowerCase(), String() and   *)
(* Number() are computed and not assumed.                                  *)
(***************************************************************************)
EXTENDS Integers, Sequences, FiniteSets, TLC

(***************************************************************************)
(* Bounds of the model.                                                    *)
(***************************************************************************)
\* largest number drawn for a metric of the context or of the value set
MaxNum == 6
\* longest checklist handed to a route
MaxItems == 2
\* longest auto_rules list handed to evaluateAutoRules on its own
MaxRules == 3
\* longest list of judged items handed to summarizeResults on its own
MaxResults == 5

(***************************************************************************)
(* Strings: sequences of characters.                                       *)
(***************************************************************************)
UpperChars ==
    <<"A","B","C","D","E","F","G","H","I","J","K","L","M",
      "N","O","P","Q","R","S","T","U","V","W","X","Y","Z">>

LowerChars ==
    <<"a","b","c","d","e","f","g","h","i","j","k","l","m",
      "n","o","p","q","r","s","t","u","v","w","x","y","z">>

DigitChars == <<"0","1","2","3","4","5","6","7","8","9">>

\* String.prototype.toLowerCase on one character
LowerChar(c) ==
    IF \E i \in 1..Len(UpperChars) : UpperChars[i] = c
    THEN LowerChars[CHOOSE i \in 1..Len(UpperChars) : UpperChars[i] = c]
    ELSE c

\* a faulty variant of ToLowerCase: the text is left as it is
ToLowerCase_off(s) == s

\* String.prototype.toLowerCase
ToLowerCase(s) == [i \in 1..Len(s) |-> LowerChar(s[i])]

\* white space as String.prototype.trim and Number() see it
IsSpace(c) == c \in {" ", "\t", "\n"}

RECURSIVE TrimStart(_)
TrimStart(s) ==
    IF s = <<>> THEN s
    ELSE IF IsSpace(Head(s)) THEN TrimStart(Tail(s)) ELSE s

RECURSIVE TrimEnd(_)
TrimEnd(s) ==
    IF s = <<>> THEN s
    ELSE IF IsSpace(s[Len(s)]) THEN TrimEnd(SubSeq(s, 1, Len(s) - 1)) ELSE s

\* String.prototype.trim
Trim(s) == TrimEnd(TrimStart(s))

IsDigit(c) == \E i \in 1..Len(DigitChars) : DigitChars[i] = c

DigitVal(c) == (CHOOSE i \in 1..Len(DigitChars) : DigitChars[i] = c) - 1

\* the decimal numeral of a natural number
RECURSIVE NatToStr(_)
NatToStr(n) ==
    IF n < 10 THEN <<DigitChars[n + 1]>>
    ELSE NatToStr(n \div 10) \o <<DigitChars[(n % 10) + 1]>>

\* Number.prototype.toString of an integer
IntToStr(n) == IF n < 0 THEN <<"-">> \o NatToStr(0 - n) ELSE NatToStr(n)

\* the value of a non-empty sequence of digits
RECURSIVE DigitsVal(_)
DigitsVal(s) ==
    IF Len(s) = 1 THEN DigitVal(s[1])
    ELSE 10 * DigitsVal(SubSeq(s, 1, Len(s) - 1)) + DigitVal(s[Len(s)])

AllDigits(s) == s # <<>> /\ \A i \in 1..Len(s) : IsDigit(s[i])

(***************************************************************************)
(* JavaScript values.  t is the type tag; n the number of a finite number; *)
(* s the text of a string; a the members of an array.  "nan" stands for    *)
(* NaN and the infinities, the numbers Number.isFinite rejects.            *)
(***************************************************************************)
Undefined == [t |-> "undefined", n |-> 0, s |-> <<>>, a |-> <<>>]

Null == [t |-> "null", n |-> 0, s |-> <<>>, a |-> <<>>]

NaN == [t |-> "nan", n |-> 0, s |-> <<>>, a |-> <<>>]

Num(i) == [t |-> "number", n |-> i, s |-> <<>>, a |-> <<>>]

Str(cs) == [t |-> "string", n |-> 0, s |-> cs, a |-> <<>>]

Arr(vs) == [t |-> "array", n |-> 0, s |-> <<>>, a |-> vs]

IsNullish(v) == v.t \in {"undefined", "null"}

\* ToBoolean: what `x || y`, `!x` and `x ? :` test
Truthy(v) ==
    CASE v.t = "undefined" -> FALSE
      [] v.t = "null" -> FALSE
      [] v.t = "nan" -> FALSE
      [] v.t = "number" -> v.n # 0
      [] v.t = "string" -> v.s # <<>>
      [] OTHER -> TRUE

\* x || y
OrElse(x, y) == IF Truthy(x) THEN x ELSE y

\* String(v) of a value that is no array
ScalarToString(v) ==
    CASE v.t = "undefined" -> <<"u","n","d","e","f","i","n","e","d">>
      [] v.t = "null" -> <<"n","u","l","l">>
      [] v.t = "nan" -> <<"N","a","N">>
      [] v.t = "number" -> IntToStr(v.n)
      [] OTHER -> v.s

\* Array.prototype.join(","): null and undefined members give ""
RECURSIVE JoinComma(_)
JoinComma(vs) ==
    IF vs = <<>> THEN <<>>
    ELSE (IF IsNullish(Head(vs)) THEN <<>> ELSE ScalarToString(Head(vs)))
         \o (IF Len(vs) = 1 THEN <<>> ELSE <<",">> \o JoinComma(Tail(vs)))

\* String(v)
StringOf(v) == IF v.t = "array" THEN JoinComma(v.a) ELSE ScalarToString(v)

\* Number(s) of a string: white space is trimmed, "" is 0, a decimal
\* integer is its value, any other text of the model's alphabet is NaN
TrimmedToNumber(u) ==
    IF u = <<>> THEN Num(0)
    ELSE IF AllDigits(u) THEN Num(DigitsVal(u))
    ELSE IF Head(u) = "-" /\ AllDigits(Tail(u)) THEN Num(0 - DigitsVal(Tail(u)))
    ELSE NaN

StringToNumber(s) == TrimmedToNumber(Trim(s))

\* Number(v)
NumberOf(v) ==
    CASE v.t = "undefined" -> NaN
      [] v.t = "null" -> Num(0)
      [] v.t = "nan" -> NaN
      [] v.t = "number" -> v
      [] OTHER -> StringToNumber(StringOf(v))

(***************************************************************************)
(* Status strings and messages of the source.                              *)
(***************************************************************************)
ALLOW == <<"a","l","l","o","w">>

DENY == <<"d","e","n","y">>

CONDITIONAL == <<"c","o","n","d","i","t","i","o","n","a","l">>

NEED_INPUT == <<"n","e","e","d","_","i","n","p","u","t">>

UNKNOWN == <<"u","n","k","n","o","w","n">>

WARN == <<"w","a","r","n">>

\* the five canonical statuses
Statuses == {ALLOW, CONDITIONAL, DENY, NEED_INPUT, UNKNOWN}

\* the literal default message of judgeOneItem and of the fallback engine
\* entry (a Korean sentence in the source; its text is never inspected)
DEFAULT_MESSAGE == <<"r","e","v","i","e","w","!">>

(***************************************************************************)
(* Rule engine helpers, functions/api/[[path]].js.                         *)
(***************************************************************************)
\* a faulty variant of canonicalStatus: a text that is no status is
\* passed on as it is
canonicalStatus_passThrough(v) == IF v = WARN THEN CONDITIONAL ELSE v

\* the chain of comparisons of normalizeStatus on v, the trimmed and
\* lower-cased text
canonicalStatus(v) ==
    IF v = ALLOW THEN ALLOW
    ELSE IF v = DENY THEN DENY
    ELSE IF v = CONDITIONAL THEN CONDITIONAL
    ELSE IF v = NEED_INPUT THEN NEED_INPUT
    ELSE IF v = UNKNOWN THEN UNKNOWN
    ELSE IF v = WARN THEN CONDITIONAL
    ELSE UNKNOWN

normalizeStatus(s) == canonicalStatus(ToLowerCase(Trim(StringOf(OrElse(s, Str(<<>>))))))

\* Number.isFinite(n) ? n : null
finiteOrNull(n) == IF n.t = "number" THEN n ELSE Null

\* null when v is "", undefined, null or converts to no finite number
toNum(v) ==
    IF v = Str(<<>>) \/ IsNullish(v) THEN Null ELSE finiteOrNull(NumberOf(v))

\* n ?? 0, as an integer
orZero(n) == IF n.t = "null" THEN 0 ELSE n.n

\* toNum(v) ?? 0
toNumOr0(v) == orZero(toNum(v))

isMissingValue(v) ==
    IF IsNullish(v) THEN TRUE
    ELSE IF v.t \in {"number", "nan"} THEN v.t = "nan"
    ELSE Trim(StringOf(v)) = <<>>

\* values?.[key]
Get(values, key) == IF key \in DOMAIN values THEN values[key] ELSE Undefined

OP_MISSING == <<"m","i","s","s","i","n","g">>

OP_PRESENT == <<"p","r","e","s","e","n","t">>

OP_IN == <<"i","n">>

OP_NOT_IN == <<"n","o","t","_","i","n">>

OP_EQ == <<"e","q">>

OP_NEQ == <<"n","e","q">>

OP_LT == <<"l","t">>

OP_LTE == <<"l","t","e">>

OP_GT == <<"g","t">>

OP_GTE == <<"g","t","e">>

\* a condition object {key, op, value}; t is "object" for an object,
\* "undefined" for an absent or falsy `when`, "primitive" for a truthy
\* value that is no object (its properties read as undefined)
Cond(key, op, value) == [t |-> "object", key |-> key, op |-> op, value |-> value]

NoCond == [t |-> "undefined", key |-> Undefined, op |-> Undefined, value |-> Undefined]

PrimitiveCond == [t |-> "primitive", key |-> Undefined, op |-> Undefined, value |-> Undefined]

\* a faulty variant of inList: the members are compared with raw as they
\* are, without String()
inList_strict(target, raw) ==
    /\ target.t = "array"
    /\ \E i \in 1..Len(target.a) : target.a[i] = raw

\* arr.map((x) => String(x)).includes(String(raw)), arr being cond.value
\* when it is an array and [] otherwise
inList(target, raw) ==
    /\ target.t = "array"
    /\ \E i \in 1..Len(target.a) : StringOf(target.a[i]) = StringOf(raw)

\* a faulty variant of compareOp: in lt, lte, gt and gte a value that is
\* no number counts as 0
compareOp_lax(op, raw, target, vNum, tNum) ==
    IF op = OP_EQ
    THEN IF vNum.t # "null" /\ tNum.t # "null" THEN vNum.n = tNum.n
         ELSE StringOf(raw) = StringOf(target)
    ELSE IF op = OP_NEQ
    THEN IF vNum.t # "null" /\ tNum.t # "null" THEN vNum.n # tNum.n
         ELSE StringOf(raw) # StringOf(target)
    ELSE IF op = OP_LT THEN orZero(vNum) < orZero(tNum)
    ELSE IF op = OP_LTE THEN orZero(vNum) <= orZero(tNum)
    ELSE IF op = OP_GT THEN orZero(vNum) > orZero(tNum)
    ELSE IF op = OP_GTE THEN orZero(vNum) >= orZero(tNum)
    ELSE FALSE

\* evalCond from `const vNum = toNum(raw)` on: eq, neq and the numeric
\* comparisons, vNum and tNum being toNum(raw) and toNum(cond.value)
compareOp(op, raw, target, vNum, tNum) ==
    IF op = OP_EQ
    THEN IF vNum.t # "null" /\ tNum.t # "null" THEN vNum.n = tNum.n
         ELSE StringOf(raw) = StringOf(target)
    ELSE IF op = OP_NEQ
    THEN IF vNum.t # "null" /\ tNum.t # "null" THEN vNum.n # tNum.n
         ELSE StringOf(raw) # StringOf(target)
    ELSE IF vNum.t = "null" \/ tNum.t = "null" THEN FALSE
    ELSE IF op = OP_LT THEN vNum.n < tNum.n
    ELSE IF op = OP_LTE THEN vNum.n <= tNum.n
    ELSE IF op = OP_GT THEN vNum.n > tNum.n
    ELSE IF op = OP_GTE THEN vNum.n >= tNum.n
    ELSE FALSE

\* evalCond once op and raw = values?.[key] are known
evalOp(op, raw, target) ==
    IF op = OP_MISSING THEN isMissingValue(raw)
    ELSE IF op = OP_PRESENT THEN ~isMissingValue(raw)
    ELSE IF op = OP_IN THEN inList(target, raw)
    ELSE IF op = OP_NOT_IN THEN ~inList(target, raw)
    ELSE compareOp(op, raw, target, toNum(raw), toNum(target))

evalCond(cond, values) ==
    IF cond.t = "undefined" \/ ~Truthy(cond.key) \/ ~Truthy(cond.op) THEN FALSE
    ELSE evalOp(ToLowerCase(Trim(StringOf(cond.op))),
                Get(values, Trim(StringOf(cond.key))),
                cond.value)

\* an auto rule; t is "object", or "null" for a null entry of the list.
\* when_all / when_any are the members when the field is an array, and
\* <<>> when it is absent, empty or no array (the code treats these alike)
Rule(id, when, when_all, when_any, result, message, priority) ==
    [t |-> "object", id |-> id, when |-> when, when_all |-> when_all,
     when_any |-> when_any, result |-> result, message |-> message,
     priority |-> priority]

NullRule ==
    [t |-> "null", id |-> Undefined, when |-> NoCond, when_all |-> <<>>,
     when_any |-> <<>>, result |-> Undefined, message |-> Undefined,
     priority |-> Undefined]

\* a faulty variant of ruleMatches: when_all is looked at before when
ruleMatches_allFirst(rule, values) ==
    IF rule.t = "null" THEN FALSE
    ELSE IF Len(rule.when_all) > 0
         THEN \A i \in 1..Len(rule.when_all) : evalCond(rule.when_all[i], values)
    ELSE IF rule.when.t # "undefined" THEN evalCond(rule.when, values)
    ELSE IF Len(rule.when_any) > 0
         THEN \E i \in 1..Len(rule.when_any) : evalCond(rule.when_any[i], values)
    ELSE FALSE

\* rule.when is any truthy value: NoCond stands for an absent (or falsy)
\* when
ruleMatches(rule, values) ==
    IF rule.t = "null" THEN FALSE
    ELSE IF rule.when.t # "undefined" THEN evalCond(rule.when, values)
    ELSE IF Len(rule.when_all) > 0
         THEN \A i \in 1..Len(rule.when_all) : evalCond(rule.when_all[i], values)
    ELSE IF Len(rule.when_any) > 0
         THEN \E i \in 1..Len(rule.when_any) : evalCond(rule.when_any[i], values)
    ELSE FALSE

\* (toNum(b.priority) ?? 0) - (toNum(a.priority) ?? 0), the comparator of
\* the sort in evaluateAutoRules: negative when a goes before b
comparePriority(a, b) == toNumOr0(b.priority) - toNumOr0(a.priority)

\* the list with r put behind its first k members
insertAt(sorted, r, k) == SubSeq(sorted, 1, k) \o <<r>> \o SubSeq(sorted, k + 1, Len(sorted))

\* a faulty variant of insertRule: r goes before the rules of its own
\* priority (a sort that is not stable)
insertRule_unstable(sorted, r) ==
    insertAt(sorted, r,
             Cardinality({i \in 1..Len(sorted) : comparePriority(r, sorted[i]) > 0}))

\* one step of the stable sort: r, the next rule of the list, goes behind
\* every rule already placed that it does not strictly precede
insertRule(sorted, r) ==
    insertAt(sorted, r,
             Cardinality({i \in 1..Len(sorted) : comparePriority(r, sorted[i]) >= 0}))

\* rules.slice().sort(comparator): Array.prototype.sort is stable
RECURSIVE sortRules(_)
sortRules(rules) ==
    IF rules = <<>> THEN <<>>
    ELSE insertRule(sortRules(SubSeq(rules, 1, Len(rules) - 1)), rules[Len(rules)])

\* the comparator reads a.priority and b.priority: a null member of a list
\* of two or more rules raises a TypeError
sortThrows(rules) == Len(rules) >= 2 /\ \E i \in 1..Len(rules) : rules[i].t = "null"

\* what evaluateAutoRules returns: a match record, or null
Hit(result, message, rule_id, priority) ==
    [t |-> "hit", result |-> result, message |-> message, rule_id |-> rule_id,
     priority |-> priority]

NoHit == [t |-> "null", result |-> <<>>, message |-> <<>>, rule_id |-> Null, priority |-> 0]

\* the match record of rule r
hitOf(r) ==
    Hit(normalizeStatus(r.result),
        Trim(StringOf(OrElse(r.message, Str(<<>>)))),
        OrElse(r.id, Null),
        toNumOr0(r.priority))

\* the first member of a list of rules that matches, as a match record
RECURSIVE firstMatch(_, _)
firstMatch(sorted, values) ==
    IF sorted = <<>> THEN NoHit
    ELSE IF ruleMatches(Head(sorted), values) THEN hitOf(Head(sorted))
    ELSE firstMatch(Tail(sorted), values)

\* an entry of rule_engine.json: {id, rule_set, auto_rules, optional_inputs}.
\* Absent fields of rule_set are Undefined; auto_rules and optional_inputs
\* are <<>> when absent or no array
EngineItem(id, default_result, default_message, auto_rules, optional_inputs) ==
    [id |-> id,
     rule_set |-> [default_result |-> default_result, default_message |-> default_message],
     auto_rules |-> auto_rules,
     optional_inputs |-> optional_inputs]

\* defined when the sort does not throw
evaluateAutoRules(engineItem, values) ==
    IF Len(engineItem.auto_rules) = 0 THEN NoHit
    ELSE firstMatch(sortRules(engineItem.auto_rules), values)

\* an input of a checklist item: a bare key string (t = "string", text in
\* key) or an object {key, label}
BareInput(key) == [t |-> "string", key |-> key, label |-> Undefined]

Input(key, label) == [t |-> "object", key |-> key, label |-> label]

\* the keys of a list of values that are truthy, as strings, in order
RECURSIVE truthyStrings(_)
truthyStrings(vs) ==
    IF vs = <<>> THEN <<>>
    ELSE IF Truthy(Head(vs)) THEN <<StringOf(Head(vs))>> \o truthyStrings(Tail(vs))
    ELSE truthyStrings(Tail(vs))

\* the members of a list of strings that are not in a set, in order
RECURSIVE without(_, _)
without(keys, optional) ==
    IF keys = <<>> THEN <<>>
    ELSE IF Head(keys) \in optional THEN without(Tail(keys), optional)
    ELSE <<Head(keys)>> \o without(Tail(keys), optional)

\* the members of a list, as a set
Members(xs) == {xs[i] : i \in 1..Len(xs)}

buildNeedKeys(checkItem, engineItem) ==
    without(truthyStrings([i \in 1..Len(checkItem.inputs) |-> checkItem.inputs[i].key]),
            Members(truthyStrings(engineItem.optional_inputs)))

RECURSIVE computeMissingInputs(_, _)
computeMissingInputs(needKeys, values) ==
    IF needKeys = <<>> THEN <<>>
    ELSE (IF isMissingValue(Get(values, Head(needKeys)))
          THEN <<[key |-> Head(needKeys), label |-> Head(needKeys)]>>
          ELSE <<>>)
         \o computeMissingInputs(Tail(needKeys), values)

\* the literal message of the forced need_input (a Korean sentence in
\* the source)
NEED_INPUT_MESSAGE == <<"i","n","p","u","t","?">>

\* a faulty variant of ruleOrDefault: the match is ignored
ruleOrDefault_alwaysDefault(hit, defaultResult, defaultMessage) ==
    [status |-> defaultResult, message |-> defaultMessage]

\* "let status = ...; let message = ...": the rule's result and message
\* when a rule matched, the defaults otherwise
ruleOrDefault(hit, defaultResult, defaultMessage) ==
    [status |-> IF hit.t = "hit" /\ hit.result # <<>>
                THEN normalizeStatus(Str(hit.result)) ELSE defaultResult,
     message |-> IF hit.t = "hit" /\ hit.message # <<>>
                 THEN Trim(hit.message) ELSE defaultMessage]

\* "if (forceNeedInputOnMissing && missing_inputs.length > 0 && ...)"
forceNeedInput(sm, missing_inputs, forceNeedInputOnMissing) ==
    IF forceNeedInputOnMissing /\ Len(missing_inputs) > 0 /\ sm.status # DENY
    THEN [status |-> NEED_INPUT,
          message |-> IF sm.message = <<>> THEN NEED_INPUT_MESSAGE ELSE sm.message]
    ELSE sm

\* "if (status === 'need_input' && missing_inputs.length === 0)"
guardNeedInput(sm, missing_inputs, defaultMessage) ==
    IF sm.status = NEED_INPUT /\ Len(missing_inputs) = 0
    THEN [status |-> CONDITIONAL,
          message |-> IF sm.message = <<>> THEN defaultMessage ELSE sm.message]
    ELSE sm

\* the object judgeOneItem returns
judgedItem(id, sm, missing_inputs, hit) ==
    [id |-> id, status |-> sm.status, message |-> sm.message,
     missing_inputs |-> missing_inputs, judge |-> hit]

\* judgeOneItem once the defaults, the missing inputs and the match are
\* computed
judgeWith(id, defaultResult, defaultMessage, missing_inputs, hit, forceNeedInputOnMissing) ==
    judgedItem(id,
               guardNeedInput(
                   forceNeedInput(ruleOrDefault(hit, defaultResult, defaultMessage),
                                  missing_inputs, forceNeedInputOnMissing),
                   missing_inputs, defaultMessage),
               missing_inputs, hit)

judgeOneItem(checkItem, engineItem, values, forceNeedInputOnMissing) ==
    judgeWith(checkItem.id,
              normalizeStatus(OrElse(engineItem.rule_set.default_result, Str(CONDITIONAL))),
              Trim(StringOf(OrElse(engineItem.rule_set.default_message, Str(DEFAULT_MESSAGE)))),
              computeMissingInputs(buildNeedKeys(checkItem, engineItem), values),
              evaluateAutoRules(engineItem, values),
              forceNeedInputOnMissing)

(***************************************************************************)
(* applies_to filtering, functions/api/[[path]].js.                        *)
(***************************************************************************)
\* item.applies_to: present is FALSE when the item has none; a *_in field
\* is <<>> when it is absent, empty or no array; a min_* field is
\* Undefined when absent
AppliesTo(zoning_in, use_in, jurisdiction_in, min_floors, min_height_m, min_gross_area_m2) ==
    [present |-> TRUE, zoning_in |-> zoning_in, use_in |-> use_in,
     jurisdiction_in |-> jurisdiction_in, min_floors |-> min_floors,
     min_height_m |-> min_height_m, min_gross_area_m2 |-> min_gross_area_m2]

NoAppliesTo ==
    [present |-> FALSE, zoning_in |-> <<>>, use_in |-> <<>>,
     jurisdiction_in |-> <<>>, min_floors |-> Undefined,
     min_height_m |-> Undefined, min_gross_area_m2 |-> Undefined]

\* an entry of checklists.json
ChecklistItem(id, inputs, refs, applies_to) ==
    [id |-> id, inputs |-> inputs, refs |-> refs, applies_to |-> applies_to]

\* the context of a request; absent fields are Undefined
Context(zoning, use, jurisdiction, floors, height_m, gross_area_m2) ==
    [zoning |-> zoning, use |-> use, jurisdiction |-> jurisdiction,
     floors |-> floors, height_m |-> height_m, gross_area_m2 |-> gross_area_m2]

includesStr(arr, s) ==
    IF Len(arr) = 0 THEN TRUE
    ELSE \E i \in 1..Len(arr) :
            Trim(StringOf(arr[i])) = Trim(StringOf(OrElse(s, Str(<<>>))))

\* one numeric threshold of appliesToPass, th and cur being toNum of the
\* threshold and of the metric: "skip" when the threshold is absent or no
\* number, "show" when the metric is unknown (return true), "hide" when
\* the metric is below the threshold (return false), "pass" otherwise
thresholdOf(min, th, cur) ==
    IF IsNullish(min) \/ th.t = "null" THEN "skip"
    ELSE IF cur.t = "null" THEN "show"
    ELSE IF cur.n < th.n THEN "hide"
    ELSE "pass"

threshold(min, cur) == thresholdOf(min, toNum(min), toNum(cur))

\* a faulty variant of stringsPass: the lists are not looked at
stringsPass_off(a, c) == TRUE

\* the three string conditions of appliesToPass
stringsPass(a, c) ==
    IF Len(a.zoning_in) > 0 /\ ~includesStr(a.zoning_in, c.zoning) THEN FALSE
    ELSE IF Len(a.use_in) > 0 /\ ~includesStr(a.use_in, c.use) THEN FALSE
    ELSE IF Len(a.jurisdiction_in) > 0 /\ ~includesStr(a.jurisdiction_in, c.jurisdiction)
         THEN FALSE
    ELSE TRUE

\* the three numeric conditions of appliesToPass, in the order of the
\* code: the first that is not skipped or passed decides
numbersPass(area, floors, height) ==
    IF area = "show" THEN TRUE
    ELSE IF area = "hide" THEN FALSE
    ELSE IF floors = "show" THEN TRUE
    ELSE IF floors = "hide" THEN FALSE
    ELSE IF height = "show" THEN TRUE
    ELSE IF height = "hide" THEN FALSE
    ELSE TRUE

appliesToPass(item, c) ==
    IF ~item.applies_to.present THEN TRUE
    ELSE IF ~stringsPass(item.applies_to, c) THEN FALSE
    ELSE numbersPass(threshold(item.applies_to.min_gross_area_m2, c.gross_area_m2),
                     threshold(item.applies_to.min_floors, c.floors),
                     threshold(item.applies_to.min_height_m, c.height_m))

(***************************************************************************)
(* Value sets: functions from keys (strings) to values.                    *)
(***************************************************************************)
K_ZONING == <<"z","o","n","i","n","g">>

K_USE == <<"u","s","e">>

K_JURISDICTION == <<"j","u","r","i","s","d","i","c","t","i","o","n">>

K_FLOORS == <<"f","l","o","o","r","s">>

K_HEIGHT_M == <<"h","e","i","g","h","t","_","m">>

K_GROSS_AREA_M2 == <<"g","r","o","s","s","_","a","r","e","a","_","m","2">>

\* the empty object {}
NoValues == [k \in {} |-> Undefined]

\* obj[key] = v
Put(values, key, v) ==
    [k \in (DOMAIN values) \cup {key} |-> IF k = key THEN v ELSE values[k]]

\* a faulty variant of putIfUndefined: the value of the context replaces
\* the one that is there
putIfUndefined_always(merged, cond, key, v) == IF cond THEN Put(merged, key, v) ELSE merged

\* if (cond && merged[key] === undefined) merged[key] = v
putIfUndefined(merged, cond, key, v) ==
    IF cond /\ Get(merged, key).t = "undefined" THEN Put(merged, key, v) ELSE merged

mergeJudgeValues(ctx, values) ==
    LET m1 == putIfUndefined(values, Truthy(ctx.zoning), K_ZONING,
                             Str(Trim(StringOf(ctx.zoning))))
        m2 == putIfUndefined(m1, Truthy(ctx.use), K_USE, Str(Trim(StringOf(ctx.use))))
        m3 == putIfUndefined(m2, Truthy(ctx.jurisdiction), K_JURISDICTION,
                             Str(Trim(StringOf(ctx.jurisdiction))))
        m4 == putIfUndefined(m3, toNum(ctx.floors).t # "null", K_FLOORS, toNum(ctx.floors))
        m5 == putIfUndefined(m4, toNum(ctx.height_m).t # "null", K_HEIGHT_M,
                             toNum(ctx.height_m))
    IN  putIfUndefined(m5, toNum(ctx.gross_area_m2).t # "null", K_GROSS_AREA_M2,
                       toNum(ctx.gross_area_m2))

(***************************************************************************)
(* summarizeResults, functions/api/[[path]].js.                            *)
(***************************************************************************)
\* a faulty variant of bump: an unknown item is not counted
bump_noUnknown(counts, st) == [counts EXCEPT ![st] = IF st = UNKNOWN THEN @ ELSE @ + 1]

\* counts[st]++
bump(counts, st) == [counts EXCEPT ![st] = @ + 1]

\* the loop over the results: counts[st]++ for each normalized status
RECURSIVE tally(_, _)
tally(results, counts) ==
    IF results = <<>> THEN counts
    ELSE tally(Tail(results), bump(counts, normalizeStatus(Str(Head(results).status))))

\* the trimmed, non-empty keys of a list of missing inputs, in order
RECURSIVE missingKeysOf(_)
missingKeysOf(miss) ==
    IF miss = <<>> THEN <<>>
    ELSE (IF Trim(Head(miss).key) = <<>> THEN <<>> ELSE <<Trim(Head(miss).key)>>)
         \o missingKeysOf(Tail(miss))

\* the keys of all results, in order of appearance
RECURSIVE allMissingKeys(_)
allMissingKeys(results) ==
    IF results = <<>> THEN <<>>
    ELSE missingKeysOf(Head(results).missing_inputs) \o allMissingKeys(Tail(results))

\* a faulty variant of addKey: a key is added whether or not it is there
addKey_always(set, k) == set \o <<k>>

\* Set.prototype.add: a key that is in the set already changes nothing
addKey(set, k) == IF \E i \in 1..Len(set) : set[i] = k THEN set ELSE set \o <<k>>

\* Array.from(new Set(keys)): first occurrences, in insertion order
RECURSIVE dedup(_)
dedup(keys) ==
    IF keys = <<>> THEN <<>>
    ELSE addKey(dedup(SubSeq(keys, 1, Len(keys) - 1)), keys[Len(keys)])

\* a faulty variant of overallStatus: allow wins
overallStatus_allowFirst(counts) ==
    IF counts[ALLOW] > 0 THEN ALLOW
    ELSE IF counts[DENY] > 0 THEN DENY
    ELSE IF counts[NEED_INPUT] > 0 THEN NEED_INPUT
    ELSE IF counts[CONDITIONAL] > 0 THEN CONDITIONAL
    ELSE UNKNOWN

\* the overall status: deny > need_input > conditional > allow > unknown
overallStatus(counts) ==
    IF counts[DENY] > 0 THEN DENY
    ELSE IF counts[NEED_INPUT] > 0 THEN NEED_INPUT
    ELSE IF counts[CONDITIONAL] > 0 THEN CONDITIONAL
    ELSE IF counts[ALLOW] > 0 THEN ALLOW
    ELSE UNKNOWN

NoSummary ==
    [status |-> <<>>, total |-> 0, counts |-> [st \in Statuses |-> 0],
     missing_inputs |-> <<>>, note |-> FALSE]

\* the object summarizeResults returns
summaryOf(results, counts) ==
    [status |-> overallStatus(counts),
     total |-> Len(results),
     counts |-> counts,
     missing_inputs |-> dedup(allMissingKeys(results)),
     note |-> Len(results) = 0]

summarizeResults(results) == summaryOf(results, tally(results, [st \in Statuses |-> 0]))

(***************************************************************************)
(* functions/index.js: the Express implementation of the same engine.      *)
(* Its toNum, normalizeStatus, evalCond and ruleMatches are the same text  *)
(* as those of functions/api/[[path]].js and share their definitions.      *)
(***************************************************************************)
isMissing(val) ==
    IF IsNullish(val) THEN TRUE
    ELSE IF val.t \in {"number", "nan"} THEN val.t = "nan"
    ELSE Trim(StringOf(val)) = <<>>

\* defined when the sort does not throw
evaluateFirstMatch(autoRules, values) == firstMatch(sortRules(autoRules), values)

\* one input of buildMissingInputs, key being String(inp.key || "").trim()
missingInput(inp, key, values, optionalKeys) ==
    IF inp.t = "string" THEN <<>>
    ELSE IF key = <<>> THEN <<>>
    ELSE IF key \in {StringOf(optionalKeys[i]) : i \in 1..Len(optionalKeys)} THEN <<>>
    ELSE IF isMissing(Get(values, key))
         THEN <<[key |-> key, label |-> StringOf(OrElse(inp.label, Str(key)))]>>
    ELSE <<>>

RECURSIVE buildMissingInputs(_, _, _)
buildMissingInputs(inputs, values, optionalKeys) ==
    IF inputs = <<>> THEN <<>>
    ELSE missingInput(Head(inputs), Trim(StringOf(OrElse(Head(inputs).key, Str(<<>>)))),
                      values, optionalKeys)
         \o buildMissingInputs(Tail(inputs), values, optionalKeys)

\* Array.prototype.includes of a string: only a string member equals it
includesExact(arr, s) == \E i \in 1..Len(arr) : arr[i] = Str(s)

\* one numeric condition of passesAppliesTo, th and cur being toNum of the
\* threshold and of the metric: "hide" also when the metric is unknown
strictThresholdOf(min, th, cur) ==
    IF IsNullish(min) \/ th.t = "null" THEN "skip"
    ELSE IF cur.t = "null" \/ cur.n < th.n THEN "hide"
    ELSE "pass"

thresholdStrict(min, cur) == strictThresholdOf(min, toNum(min), toNum(cur))

passesAppliesTo(item, ctx) ==
    LET a == item.applies_to
    IN  IF ~a.present THEN TRUE
        ELSE IF Len(a.zoning_in) > 0
                /\ ~includesExact(a.zoning_in, StringOf(OrElse(ctx.zoning, Str(<<>>))))
             THEN FALSE
        ELSE IF Len(a.use_in) > 0
                /\ ~includesExact(a.use_in, StringOf(OrElse(ctx.use, Str(<<>>))))
             THEN FALSE
        ELSE IF Len(a.jurisdiction_in) > 0
                /\ ~includesExact(a.jurisdiction_in, StringOf(OrElse(ctx.jurisdiction, Str(<<>>))))
             THEN FALSE
        ELSE IF thresholdStrict(a.min_floors, ctx.floors) = "hide" THEN FALSE
        ELSE IF thresholdStrict(a.min_height_m, ctx.height_m) = "hide" THEN FALSE
        ELSE IF thresholdStrict(a.min_gross_area_m2, ctx.gross_area_m2) = "hide" THEN FALSE
        ELSE TRUE

(***************************************************************************)
(* POST /api/checklists/judge, functions/api/[[path]].js.                  *)
(***************************************************************************)
\* the largest member of a set of indices, or 0 when it is empty (a later
\* entry of a Map replaces an earlier one of the same key)
lastIndex(hits) == IF hits = {} THEN 0 ELSE CHOOSE i \in hits : \A j \in hits : j <= i

\* engineById.get(id): the index of the last entry of rule_engine.json
\* whose String(x.id || "") is the non-empty id, or 0 when there is none
engineIndex(engineItems, id) ==
    lastIndex({i \in 1..Len(engineItems) :
                 /\ Truthy(engineItems[i].id)
                 /\ StringOf(engineItems[i].id) = id})

\* a faulty variant of engineOrFallback: the synthesized default result is
\* unknown
engineOrFallback_unknown(engineItems, i, id) ==
    IF i # 0 THEN engineItems[i]
    ELSE EngineItem(Str(id), Str(UNKNOWN), Str(DEFAULT_MESSAGE), <<>>, <<>>)

\* eng || {id, rule_set: {default_result: "conditional", ...}, ...}, i
\* being the index of eng or 0
engineOrFallback(engineItems, i, id) ==
    IF i # 0 THEN engineItems[i]
    ELSE EngineItem(Str(id), Str(CONDITIONAL), Str(DEFAULT_MESSAGE), <<>>, <<>>)

fallbackEngine(engineItems, id) ==
    engineOrFallback(engineItems, engineIndex(engineItems, id), id)

\* the object the callback of filtered.map returns
resultOf(id, judged) ==
    [id |-> id,
     status |-> judged.status,
     message |-> judged.message,
     missing_inputs |-> judged.missing_inputs,
     matched_rule_id |-> IF judged.judge.t = "hit"
                         THEN OrElse(judged.judge.rule_id, Null) ELSE Null,
     priority |-> IF judged.judge.t = "hit" THEN judged.judge.priority ELSE 0,
     judge |-> judged.judge]

\* String(it?.id || "")
idOf(it) == StringOf(OrElse(it.id, Str(<<>>)))

\* the callback of filtered.map: one entry of data.results
judgedResult(it, engineItems, values) ==
    resultOf(idOf(it), judgeOneItem(it, fallbackEngine(engineItems, idOf(it)), values, FALSE))

\* ctxForFilter.m = toNum(values.m) when toNum(ctxForFilter.m) is null
\* and toNum(values.m) is not
metricForFilter(cur, fromValues) ==
    IF toNum(cur).t = "null" /\ fromValues.t # "null" THEN fromValues ELSE cur

\* ctxForFilter: the context, its unknown metrics taken from the values
ctxForFilter(c, values) ==
    [c EXCEPT
       !.floors = metricForFilter(@, toNum(Get(values, K_FLOORS))),
       !.height_m = metricForFilter(@, toNum(Get(values, K_HEIGHT_M))),
       !.gross_area_m2 = metricForFilter(@, toNum(Get(values, K_GROSS_AREA_M2)))]

\* items.filter((it) => appliesToPass(it, c)): the indices kept, in order
RECURSIVE keptIndices(_, _, _)
keptIndices(items, c, i) ==
    IF i > Len(items) THEN <<>>
    ELSE (IF appliesToPass(items[i], c) THEN <<i>> ELSE <<>>)
         \o keptIndices(items, c, i + 1)

\* what loadLaws returns: the object of laws.json, from codes to law
\* records, or null when the file could not be loaded
LawStore(map) == [t |-> "object", map |-> map]

NoLaws == [t |-> "null", map |-> NoValues]

\* const lawsMap = laws || {}
lawsMapOf(store) == IF store.t = "null" THEN NoValues ELSE store.map

\* String(c || "").trim()
refCode(c) == Trim(StringOf(OrElse(c, Str(<<>>))))

\* the body of refs.forEach: missingRefSet.add(code) for a code that is
\* not empty and has no law in lawsMap
addMissingRef(set, code, lawsMap) ==
    IF code = <<>> \/ Truthy(Get(lawsMap, code)) THEN set ELSE addKey(set, code)

\* refs.forEach(...), set being missingRefSet before it
RECURSIVE refsMissing(_, _, _)
refsMissing(refs, lawsMap, set) ==
    IF refs = <<>> THEN set
    ELSE refsMissing(Tail(refs), lawsMap, addMissingRef(set, refCode(Head(refs)), lawsMap))

\* a faulty variant of judgeCallback: an item one of whose refs has no law
\* is returned as unknown
judgeCallback_lawGated(it, engineItems, vals, lawsMap, missing) ==
    [result |-> [judgedResult(it, engineItems, vals) EXCEPT
                   !.status = IF refsMissing(it.refs, lawsMap, <<>>) # <<>>
                              THEN UNKNOWN ELSE @],
     missing |-> refsMissing(it.refs, lawsMap, missing)]

\* the callback of filtered.map: result is the entry of data.results it
\* returns, missing is missingRefSet after it
judgeCallback(it, engineItems, vals, lawsMap, missing) ==
    [result |-> judgedResult(it, engineItems, vals),
     missing |-> refsMissing(it.refs, lawsMap, missing)]

\* the results so far and missingRefSet, after one more callback
afterCallback(mapped, cb) ==
    [results |-> Append(mapped.results, cb.result), missing |-> cb.missing]

mapNext(mapped, it, engineItems, vals, lawsMap) ==
    afterCallback(mapped, judgeCallback(it, engineItems, vals, lawsMap, mapped.missing))

\* filtered.map(...) on the first k items kept
RECURSIVE mapKept(_, _, _, _, _, _)
mapKept(items, engineItems, vals, kept, lawsMap, k) ==
    IF k = 0 THEN [results |-> <<>>, missing |-> <<>>]
    ELSE mapNext(mapKept(items, engineItems, vals, kept, lawsMap, k - 1),
                 items[kept[k]], engineItems, vals, lawsMap)

\* the 200 response: data.results, data.summary, meta.values and
\* meta.missing_refs
judgeResponse(vals, mapped) ==
    [http |-> 200, values |-> vals, results |-> mapped.results,
     summary |-> summarizeResults(mapped.results), missing_refs |-> mapped.missing]

\* the 500 response of the catch of onRequest
errorResponse(vals) ==
    [http |-> 500, values |-> vals, results |-> <<>>, summary |-> NoSummary,
     missing_refs |-> <<>>]

\* filtered.map(...) and what follows it, kept being the indices of the
\* items that passed the filter: the sort of a kept item's rules may throw
judgeKept(items, engineItems, vals, kept, lawsMap) ==
    IF \E k \in 1..Len(kept) :
          sortThrows(fallbackEngine(engineItems, idOf(items[kept[k]])).auto_rules)
    THEN errorResponse(vals)
    ELSE judgeResponse(vals, mapKept(items, engineItems, vals, kept, lawsMap, Len(kept)))

\* the route once values = mergeJudgeValues(ctx, rawValues) is computed
judgeMerged(items, engineItems, c, vals, lawsMap) ==
    judgeKept(items, engineItems, vals, keptIndices(items, ctxForFilter(c, vals), 1), lawsMap)

\* the response of the route
cfJudge(items, engineItems, c, rawVals, store) ==
    judgeMerged(items, engineItems, c, mergeJudgeValues(c, rawVals), lawsMapOf(store))

(***************************************************************************)
(* GET /api/checklists/enriched of functions/api/[[path]].js.  q holds the *)
(* context the client puts in the query string.                            *)
(***************************************************************************)
\* url.searchParams.get(name): the text of the parameter, or null
searchParam(v) == IF v.t = "undefined" THEN Null ELSE Str(StringOf(v))

\* (url.searchParams.get(name) || "").trim()
textParam(v) == Str(Trim(StringOf(OrElse(searchParam(v), Str(<<>>)))))

\* const ctx = { zoning, use, jurisdiction, floors, height_m, gross_area_m2 }
enrichedContext(q) ==
    Context(textParam(q.zoning), textParam(q.use), textParam(q.jurisdiction),
            toNum(searchParam(q.floors)), toNum(searchParam(q.height_m)),
            toNum(searchParam(q.gross_area_m2)))

\* n ?? undefined
orUndefined(n) == IF n.t = "null" THEN Undefined ELSE n

\* const values = { floors, height_m, gross_area_m2 } of the numbers of
\* the query string; a key whose value is undefined reads as an absent key
enrichedValues(c) ==
    [k \in {key \in {K_FLOORS, K_HEIGHT_M, K_GROSS_AREA_M2} :
               orUndefined(IF key = K_FLOORS THEN c.floors
                           ELSE IF key = K_HEIGHT_M THEN c.height_m
                           ELSE c.gross_area_m2).t # "undefined"}
       |-> IF k = K_FLOORS THEN c.floors
           ELSE IF k = K_HEIGHT_M THEN c.height_m ELSE c.gross_area_m2]

\* the object the callback of map returns: the item, server_judge and
\* missing_inputs
enrichedOf(it, judged) ==
    [item |-> it,
     server_judge |-> [result |-> judged.status,
                       message |-> judged.message,
                       rule_id |-> IF judged.judge.t = "hit"
                                   THEN OrElse(judged.judge.rule_id, Null) ELSE Null],
     missing_inputs |-> judged.missing_inputs]

enrichedItem(it, engineItems, values) ==
    enrichedOf(it, judgeOneItem(it, fallbackEngine(engineItems, idOf(it)), values, FALSE))

\* .map(...) on the first k items kept
RECURSIVE mapEnriched(_, _, _, _, _)
mapEnriched(items, engineItems, values, kept, k) ==
    IF k = 0 THEN <<>>
    ELSE Append(mapEnriched(items, engineItems, values, kept, k - 1),
                enrichedItem(items[kept[k]], engineItems, values))

\* the response, kept being the indices of the items that pass the
\* filter: data.default_conditional in results, meta.values in values
enrichedKept(items, engineItems, values, kept) ==
    IF \E k \in 1..Len(kept) :
          sortThrows(fallbackEngine(engineItems, idOf(items[kept[k]])).auto_rules)
    THEN errorResponse(values)
    ELSE [http |-> 200, values |-> values,
          results |-> mapEnriched(items, engineItems, values, kept, Len(kept)),
          summary |-> NoSummary, missing_refs |-> <<>>]

enrichedFor(items, engineItems, c) ==
    enrichedKept(items, engineItems, enrichedValues(c), keptIndices(items, c, 1))

cfEnriched(items, engineItems, q) == enrichedFor(items, engineItems, enrichedContext(q))

\* a faulty variant of copyThenWrite: no copy is made, the writes go to
\* the object received
copyThenWrite_alias(obj, written) == [receiver |-> written, copy |-> written]

\* { ...obj } or arr.slice(), and the writes that follow: a new object (a
\* new array) gets the members of the one received, and the writes (the
\* sort) go to it.  copy is what the new object holds in the end, receiver
\* what the object received holds
copyThenWrite(obj, written) == [receiver |-> obj, copy |-> written]

\* the auto_rules of an entry after evaluateAutoRules: an empty list
\* returns before the sort
rulesAfterEvaluate(rules) ==
    IF Len(rules) = 0 THEN rules ELSE copyThenWrite(rules, sortRules(rules)).receiver

\* the rule-engine entries after judgeOneItem on the item of an id: i is
\* the index of its entry, 0 when the fallback entry, built by the route,
\* is judged
engineAfterJudge(engineItems, i) ==
    IF i = 0 THEN engineItems
    ELSE [engineItems EXCEPT ![i].auto_rules = rulesAfterEvaluate(@)]

(***************************************************************************)
(* POST /api/checklists/judge, functions/index.js.                         *)
(***************************************************************************)
\* ruleMap.get(id): the index of the last entry with a truthy id whose
\* String(x.id) is id, or 0
indexRuleEngineById(engineItems, id) ==
    lastIndex({i \in 1..Len(engineItems) :
                 Truthy(engineItems[i].id) /\ StringOf(engineItems[i].id) = id})

\* eng || {}, i being the index of eng or 0
engineOrEmpty(engineItems, i) ==
    IF i # 0 THEN engineItems[i]
    ELSE EngineItem(Undefined, Undefined, Undefined, <<>>, <<>>)

\* ruleMap.get(String(it.id)) || {}
idxEngineOf(engineItems, it) ==
    engineOrEmpty(engineItems, indexRuleEngineById(engineItems, StringOf(it.id)))

\* n != null ? n : v
numOrSelf(n, v) == IF n.t # "null" THEN n ELSE v

\* values[k] = toNum(v) != null ? toNum(v) : v, for every key of body.values
idxValues(valuesIn) == [k \in DOMAIN valuesIn |-> numOrSelf(toNum(valuesIn[k]), valuesIn[k])]

\* String(v || "").trim(), as a value
trimmedString(v) == Str(Trim(StringOf(OrElse(v, Str(<<>>)))))

\* (values has key) ? values[key] : dflt -- one property of { ...ctx, ...values }
spread(vals, key, dflt) == IF key \in DOMAIN vals THEN vals[key] ELSE dflt

\* { ...ctx, ...values } with ctx = {zoning, use, jurisdiction} trimmed
idxFilterContext(c, vals) ==
    Context(spread(vals, K_ZONING, trimmedString(c.zoning)),
            spread(vals, K_USE, trimmedString(c.use)),
            spread(vals, K_JURISDICTION, trimmedString(c.jurisdiction)),
            spread(vals, K_FLOORS, Undefined),
            spread(vals, K_HEIGHT_M, Undefined),
            spread(vals, K_GROSS_AREA_M2, Undefined))

\* the object the callback of filtered.map returns, status and message
\* being resolved
idxResultOf(it, eng, vals, judged, status, message) ==
    [id |-> it.id,
     status |-> status,
     message |-> message,
     missing_inputs |-> IF status = NEED_INPUT
                        THEN buildMissingInputs(it.inputs, vals, eng.optional_inputs)
                        ELSE <<>>,
     judge |-> judged]

\* the callback from `let status = "unknown"` on, judged being what
\* evaluateFirstMatch returned
idxResolve(it, eng, vals, judged) ==
    idxResultOf(it, eng, vals, judged,
                IF judged.t = "hit" THEN normalizeStatus(Str(judged.result))
                ELSE normalizeStatus(eng.rule_set.default_result),
                IF judged.t = "hit" THEN judged.message
                ELSE Trim(StringOf(OrElse(eng.rule_set.default_message, Str(<<>>)))))

\* the callback of filtered.map of the Express route, eng being
\* ruleMap.get(String(it.id)) || {}
idxJudgeWith(it, eng, vals) ==
    idxResolve(it, eng, vals, evaluateFirstMatch(eng.auto_rules, vals))

idxJudgedResult(it, engineItems, vals) == idxJudgeWith(it, idxEngineOf(engineItems, it), vals)

RECURSIVE idxKeptIndices(_, _, _)
idxKeptIndices(items, c, i) ==
    IF i > Len(items) THEN <<>>
    ELSE (IF passesAppliesTo(items[i], c) THEN <<i>> ELSE <<>>)
         \o idxKeptIndices(items, c, i + 1)

\* filtered.forEach((it) => (it.refs || []).forEach((c) => refs.add(c))),
\* before the Set drops the repetitions
RECURSIVE idxRefs(_, _, _)
idxRefs(items, kept, k) ==
    IF k > Len(kept) THEN <<>>
    ELSE items[kept[k]].refs \o idxRefs(items, kept, k + 1)

\* (codes || []).map((c) => String(c || "").trim()).filter(Boolean)
RECURSIVE trimmedCodes(_)
trimmedCodes(codes) ==
    IF codes = <<>> THEN <<>>
    ELSE (IF refCode(Head(codes)) = <<>> THEN <<>> ELSE <<refCode(Head(codes))>>)
         \o trimmedCodes(Tail(codes))

\* the codes pushed to `missing` by unique.forEach
RECURSIVE codesWithoutLaw(_, _)
codesWithoutLaw(unique, fileDb) ==
    IF unique = <<>> THEN <<>>
    ELSE (IF Truthy(Get(fileDb, Head(unique))) THEN <<>> ELSE <<Head(unique)>>)
         \o codesWithoutLaw(Tail(unique), fileDb)

\* getLawsByCodes(codes).missing, the laws being read from the file
getLawsByCodes(codes, store) == codesWithoutLaw(dedup(trimmedCodes(codes)), lawsMapOf(store))

\* the Express response: data.results and meta.missing_refs (the route
\* builds no summary)
idxResponse(vals, res, missing) ==
    [http |-> 200, values |-> vals, results |-> res, summary |-> NoSummary,
     missing_refs |-> missing]

\* filtered.map(...) of the Express route and getLawsByCodes on the refs
\* of the items kept; bad(res, e, 500) when the map throws
idxJudgeKept(items, engineItems, vals, kept, store) ==
    IF \E k \in 1..Len(kept) :
          sortThrows(idxEngineOf(engineItems, items[kept[k]]).auto_rules)
    THEN errorResponse(vals)
    ELSE idxResponse(vals,
                     [k \in 1..Len(kept) |->
                        idxJudgedResult(items[kept[k]], engineItems, vals)],
                     getLawsByCodes(dedup(idxRefs(items, kept, 1)), store))

\* the route once values is computed
idxJudgeValues(items, engineItems, c, vals, store) ==
    idxJudgeKept(items, engineItems, vals,
                 idxKeptIndices(items, idxFilterContext(c, vals), 1), store)

\* the response of the Express route
idxJudge(items, engineItems, c, valuesIn, store) ==
    idxJudgeValues(items, engineItems, c, idxValues(valuesIn), store)

(***************************************************************************)
(* Inputs: the definitions, contexts and value sets the requests and the   *)
(* calls are drawn from.                                                   *)
(***************************************************************************)
K_ROAD_WIDTH_M == <<"r","o","a","d","_","w","i","d","t","h","_","m">>

\* two zonings (the source's are Korean names), a use and a jurisdiction
Z_R1 == <<"R","1">>

Z_C1 == <<"C","1">>

U_HOUSE == <<"h","o","u","s","e">>

J_SEOUL == <<"s","e","o","u","l">>

\* the zoning R1 as a user may type it
Z_R1_PADDED == <<" ">> \o Z_R1 \o <<" ">>

\* a result string that is no status
FOO == <<"F","O","O">>

ID_A == <<"a">>

ID_B == <<"b">>

\* all sequences over S of a length in lo..hi
SeqsOf(S, lo, hi) == UNION {[1..n -> S] : n \in lo..hi}

floorsGte5 == Cond(Str(K_FLOORS), Str(OP_GTE), Num(5))

\* Scenario A of the specification: floors >= 5 -> deny, priority 10
RuleDeny10 ==
    Rule(Str(<<"r","A">>), floorsGte5, <<>>, <<>>, Str(DENY), Str(<<"m","A">>), Num(10))

\* priority 10 as well; a legacy, padded, mixed-case result
RuleWarn10 ==
    Rule(Str(<<"r","B">>), Cond(Str(K_FLOORS), Str(OP_PRESENT), Undefined), <<>>, <<>>,
         Str(<<" ","W","a","r","n"," ">>), Str(<<"m","B">>), Num(10))

\* no priority, no message
RuleAllow0 ==
    Rule(Str(<<"r","C">>), Cond(Str(K_FLOORS), Str(OP_LT), Num(5)), <<>>, <<>>,
         Str(ALLOW), Undefined, Undefined)

\* the priority is the string "7"
RuleNeedInput7 ==
    Rule(Str(<<"r","D">>), Cond(Str(K_FLOORS), Str(OP_MISSING), Undefined), <<>>, <<>>,
         Str(NEED_INPUT), Str(<<"m","D">>), Str(<<"7">>))

\* no id, a when_all list, a result that is no status
RuleFoo5 ==
    Rule(Undefined, NoCond,
         <<floorsGte5, Cond(Str(K_FLOORS), Str(OP_LTE), Num(MaxNum))>>, <<>>,
         Str(FOO), Str(<<"m","E">>), Num(5))

\* no condition at all: never matches
RuleNoCond20 ==
    Rule(Str(<<"r","F">>), NoCond, <<>>, <<>>, Str(DENY), Str(<<"m","F">>), Num(20))

RuleUniverse ==
    {RuleDeny10, RuleWarn10, RuleAllow0, RuleNeedInput7, RuleFoo5, RuleNoCond20, NullRule}

\* the value of floors in a value set; Undefined stands for no such key
FloorsInputs == {Undefined, Str(<<" ">>), Num(3)} \cup {Num(i) : i \in 6..MaxNum}

RoadInputs == {Undefined, Num(4)}

\* the value set {floors: f, road_width_m: r}, without the absent keys
mkValues(f, r) ==
    LET v1 == IF f.t = "undefined" THEN NoValues ELSE Put(NoValues, K_FLOORS, f)
    IN  IF r.t = "undefined" THEN v1 ELSE Put(v1, K_ROAD_WIDTH_M, r)

ValueSets == {mkValues(f, r) : f \in FloorsInputs, r \in RoadInputs}

FloorsValueSets == {mkValues(f, Undefined) : f \in FloorsInputs}

\* contexts of the judge requests
JudgeContexts ==
    {Context(z, uj[1], uj[2], f, Undefined, Undefined) :
       z \in {Undefined, Str(Z_R1), Str(Z_R1_PADDED), Str(Z_C1)},
       uj \in {<<Undefined, Undefined>>, <<Str(U_HOUSE), Undefined>>,
               <<Str(U_HOUSE), Str(J_SEOUL)>>},
       f \in {Undefined, Num(3)}}

InputLists ==
    { <<>>,
      <<Input(Str(K_ROAD_WIDTH_M), Str(<<"R","o","a","d">>))>>,
      <<BareInput(Str(K_FLOORS)), Input(Str(K_ROAD_WIDTH_M), Undefined)>> }

ZoningR1Only == AppliesTo(<<Str(Z_R1)>>, <<>>, <<>>, Undefined, Undefined, Undefined)

HouseInSeoulOnly ==
    AppliesTo(<<>>, <<Str(U_HOUSE)>>, <<Str(J_SEOUL)>>, Undefined, Undefined, Undefined)

MinFloorsAndArea5 == AppliesTo(<<>>, <<>>, <<>>, Num(5), Undefined, Num(5))

\* checklists of one item
SingleChecklists ==
    {<<ChecklistItem(Str(ID_A), inp, <<>>, a)>> :
       inp \in InputLists, a \in {NoAppliesTo, MinFloorsAndArea5}}

RouteRuleLists ==
    { <<>>, <<RuleDeny10>>, <<RuleNeedInput7>>, <<RuleAllow0, RuleWarn10>>,
      <<RuleFoo5>>, <<NullRule, RuleDeny10>>, <<RuleAllow0>> }

DefaultResults == {Undefined, Str(ALLOW), Str(NEED_INPUT), Str(<<" ","W","a","r","n"," ">>), Str(FOO)}

\* the default message that goes with a default result
defaultMessageOf(dr) == IF dr.t = "undefined" THEN Undefined ELSE Str(<<"m","0">>)

EnginesOf(id) ==
    {EngineItem(Str(id), dr, defaultMessageOf(dr), rules, opt) :
       dr \in DefaultResults, rules \in RouteRuleLists,
       opt \in {<<>>, <<Str(K_ROAD_WIDTH_M)>>}}

\* the engine of a request on one item: with or without its entry
SingleEngines == {<<>>} \cup {<<e>> : e \in EnginesOf(ID_A)}

SingleContexts ==
    {Context(Str(Z_R1), Undefined, Undefined, f, Undefined, Undefined) :
       f \in {Undefined, Num(3)}}

MultiItems ==
    { ChecklistItem(Str(ID_A), <<Input(Str(K_ROAD_WIDTH_M), Undefined)>>, <<>>, NoAppliesTo),
      ChecklistItem(Str(ID_A), <<Input(Str(K_ROAD_WIDTH_M), Undefined)>>, <<>>, ZoningR1Only),
      ChecklistItem(Str(ID_B), <<Input(Str(K_ROAD_WIDTH_M), Undefined)>>, <<>>, HouseInSeoulOnly),
      ChecklistItem(Str(ID_B), <<Input(Str(K_ROAD_WIDTH_M), Undefined)>>, <<>>, MinFloorsAndArea5) }

MultiEngines ==
    { <<>>,
      <<EngineItem(Str(ID_A), Str(ALLOW), Undefined, <<RuleDeny10>>, <<>>)>>,
      <<EngineItem(Str(ID_B), Str(NEED_INPUT), Undefined, <<>>, <<>>),
        EngineItem(Str(ID_A), Str(ALLOW), Undefined, <<RuleDeny10>>, <<>>)>>,
      <<EngineItem(Str(ID_B), Str(FOO), Undefined, <<>>, <<>>),
        EngineItem(Str(ID_B), Undefined, Undefined, <<RuleAllow0>>, <<Str(K_ROAD_WIDTH_M)>>)>>,
      <<EngineItem(Str(ID_A), Str(ALLOW), Undefined, <<NullRule, RuleDeny10>>, <<>>),
        EngineItem(Str(ID_B), Str(ALLOW), Undefined, <<RuleFoo5>>, <<>>)>> }

\* checklists of several items, or of none
MultiChecklists == {<<>>} \cup SeqsOf(MultiItems, 2, MaxItems)

\* the threshold of every min_* field of the inputs
Threshold == Num(5)

\* a metric of the context: absent, no number, below and above Threshold
MetricInputs == {Undefined, Str(<<"x">>), Num(3), Num(MaxNum)}

\* the applies_to objects handed to appliesToPass / passesAppliesTo on
\* their own
AppliesToInputs ==
    {NoAppliesTo} \cup
    {AppliesTo(zin, uj[1], uj[2], mf, mh, ma) :
       zin \in {<<>>, <<Str(Z_R1)>>, <<Str(Z_C1), Str(Z_R1)>>},
       uj \in {<< <<>>, <<>> >>, << <<Str(U_HOUSE)>>, <<>> >>, << <<>>, <<Str(J_SEOUL)>> >>},
       mf \in {Undefined, Threshold},
       mh \in {Undefined, Threshold},
       ma \in {Undefined, Threshold}}

\* the contexts handed to them
AppliesContexts ==
    {Context(z, uj[1], uj[2], f, h, a) :
       z \in {Undefined, Str(Z_R1), Str(Z_R1_PADDED), Str(Z_C1)},
       uj \in {<<Undefined, Undefined>>, <<Str(U_HOUSE), Str(J_SEOUL)>>},
       f \in MetricInputs,
       h \in MetricInputs \ {Str(<<"x">>)},
       a \in MetricInputs \ {Str(<<"x">>)}}

\* a judged item as the callback of filtered.map returns it, of a given
\* status; only a need_input item points at a missing input
resultOfStatus(st) ==
    [id |-> ID_A,
     status |-> st,
     message |-> <<>>,
     missing_inputs |-> IF st = NEED_INPUT
                        THEN <<[key |-> K_ROAD_WIDTH_M, label |-> K_ROAD_WIDTH_M]>>
                        ELSE <<>>,
     matched_rule_id |-> Null,
     priority |-> 0,
     judge |-> NoHit]

\* an input key as an author may have typed it, and one that is blank
K_ROAD_WIDTH_M_PADDED == <<" ">> \o K_ROAD_WIDTH_M \o <<" ">>

K_BLANK == <<" ">>

\* the keys of the missing inputs of one judged item
MissingKeyLists ==
    { <<>>, <<K_ROAD_WIDTH_M>>, <<K_FLOORS, K_ROAD_WIDTH_M>>, <<K_ROAD_WIDTH_M_PADDED>>,
      <<K_BLANK, K_FLOORS>> }

\* a conditional item as judgeOneItem returns it, its missing inputs
\* having the given keys (computeMissingInputs labels an input by its key)
resultMissing(keys) ==
    [id |-> ID_A,
     status |-> CONDITIONAL,
     message |-> <<>>,
     missing_inputs |-> [m \in 1..Len(keys) |-> [key |-> keys[m], label |-> keys[m]]],
     matched_rule_id |-> Null,
     priority |-> 0,
     judge |-> NoHit]

\* lists of judged items that miss inputs
MissingResultLists ==
    {[k \in 1..Len(kl) |-> resultMissing(kl[k])] : kl \in SeqsOf(MissingKeyLists, 1, MaxItems)}

\* the lists of judged items handed to summarizeResults on its own
ResultLists == {[k \in 1..Len(sts) |-> resultOfStatus(sts[k])] : sts \in SeqsOf(Statuses, 0, MaxResults)}

\* obj[key] = v for a key the caller states; Undefined stands for a key
\* the caller does not state
putIfStated(vals, key, v) == IF v.t = "undefined" THEN vals ELSE Put(vals, key, v)

\* the contexts handed to mergeJudgeValues on its own
MergeContexts ==
    {Context(z, u, j, f, h, a) :
       z \in {Undefined, Str(Z_R1), Str(Z_R1_PADDED)},
       u \in {Undefined, Str(U_HOUSE)},
       j \in {Undefined, Str(J_SEOUL)},
       f \in {Undefined, Str(<<"x">>), Num(3)},
       h \in {Undefined, Num(3)},
       a \in {Undefined, Num(MaxNum)}}

\* the value sets handed to it: each well-known key absent, or stated
\* with a value that is not the context's (null and "" included)
MergeValueSets ==
    {putIfStated(putIfStated(putIfStated(putIfStated(putIfStated(putIfStated(
        NoValues, K_ZONING, z), K_USE, u), K_JURISDICTION, j), K_FLOORS, f),
        K_HEIGHT_M, h), K_GROSS_AREA_M2, a) :
       z \in {Undefined, Str(Z_C1), Str(<<>>)},
       u \in {Undefined, Str(<<"s","h","o","p">>)},
       j \in {Undefined, Str(<<"b","u","s","a","n">>)},
       f \in {Undefined, Null, Num(MaxNum)},
       h \in {Undefined, Str(<<"9">>)},
       a \in {Undefined, Num(3)}}

\* contexts and value sets of the judge requests that state metrics: each
\* of floors, height_m and gross_area_m2 absent or stated, by the context,
\* by the value set, or by both with different values
MetricContexts ==
    {Context(Undefined, Undefined, Undefined, f, h, a) :
       f \in {Undefined, Num(3)}, h \in {Undefined, Num(3)}, a \in {Undefined, Num(MaxNum)}}

MetricValueSets ==
    {putIfStated(putIfStated(putIfStated(NoValues, K_FLOORS, f), K_HEIGHT_M, h),
                 K_GROSS_AREA_M2, a) :
       f \in {Undefined, Null, Num(MaxNum)},
       h \in {Undefined, Str(<<"9">>)},
       a \in {Undefined, Num(3)}}

\* rule engines of the evaluations over shared definitions: those of
\* MultiEngines, and one whose rules are not in the order of their
\* priorities
FrameEngines ==
    MultiEngines \cup
    { <<EngineItem(Str(ID_A), Str(ALLOW), Undefined, <<RuleAllow0, RuleWarn10>>, <<>>),
        EngineItem(Str(ID_B), Undefined, Undefined, <<RuleNeedInput7, RuleDeny10>>,
                   <<Str(K_ROAD_WIDTH_M)>>)>> }

FrameContexts ==
    {Context(Str(z), Str(U_HOUSE), Str(J_SEOUL), f, Undefined, Undefined) :
       z \in {Z_R1, Z_C1}, f \in {Undefined, Num(3)}}

\* two law codes
L1 == <<"L","1">>

L2 == <<"L","2">>

\* a law record
LawRecord == Str(<<"l","a","w">>)

\* law stores: none, one without law, one with L1, one with L1 and L2
LawStores ==
    { NoLaws,
      LawStore(NoValues),
      LawStore(Put(NoValues, L1, LawRecord)),
      LawStore(Put(Put(NoValues, L1, LawRecord), L2, LawRecord)) }

\* the refs of an item: none, one code, and codes that are padded,
\* repeated or empty
RefLists ==
    { <<>>, <<Str(L1)>>, <<Str(<<" ">> \o L2 \o <<" ">>), Str(L1), Str(L2), Str(<<>>)>> }

\* checklists of one or two items that name laws
LawChecklists ==
    {<<ChecklistItem(Str(ID_A), <<Input(Str(K_ROAD_WIDTH_M), Undefined)>>, ra, NoAppliesTo)>> :
       ra \in RefLists}
    \cup
    {<<ChecklistItem(Str(ID_A), <<Input(Str(K_ROAD_WIDTH_M), Undefined)>>, ra, NoAppliesTo),
       ChecklistItem(Str(ID_B), <<>>, rb, ZoningR1Only)>> :
       ra \in RefLists, rb \in RefLists}

\* the upper-case letter of a lower-case one
UpperChar(c) ==
    IF \E i \in 1..Len(LowerChars) : LowerChars[i] = c
    THEN UpperChars[CHOOSE i \in 1..Len(LowerChars) : LowerChars[i] = c]
    ELSE c

\* a word in lower case, in upper case and capitalised
Casings(w) ==
    {w, [i \in 1..Len(w) |-> UpperChar(w[i])],
        [i \in 1..Len(w) |-> IF i = 1 THEN UpperChar(w[i]) ELSE w[i]]}

\* a text with and without white space around it
Paddings(s) == {s, <<" ">> \o s, s \o <<" ">>, <<" ","\t">> \o s \o <<"\n">>}

\* the words handed to normalizeStatus: the statuses, the legacy warn, a
\* word that is no status and the empty text
StatusWords ==
    {ALLOW, DENY, CONDITIONAL, NEED_INPUT, UNKNOWN, WARN, <<"f","o","o">>, <<>>}

\* the arguments of normalizeStatus: texts in every casing and padding,
\* and values that are no text
StatusInputs ==
    {Undefined, Null, Num(0), Num(1)} \cup
    {Str(p) : p \in UNION {Paddings(c) : c \in UNION {Casings(w) : w \in StatusWords}}}

\* the conditions handed to evalCond on their own: the four operators of
\* C18 on the key floors, with a target that is absent, a text or a list
CondTargets ==
    {Undefined, Str(<<"3">>), Arr(<<>>), Arr(<<Num(3)>>),
     Arr(<<Str(<<"3">>), Str(<<" ">>)>>),
     Arr(<<Str(<<"u","n","d","e","f","i","n","e","d">>), Num(MaxNum)>>)}

CondInputs ==
    {Cond(Str(k), Str(op), target) :
       k \in {K_FLOORS, <<" ">> \o K_FLOORS, K_ROAD_WIDTH_M},
       op \in {OP_MISSING, OP_PRESENT, OP_IN, OP_NOT_IN},
       target \in CondTargets}

\* the value sets handed to evalCond: floors absent, null, NaN, an empty
\* and a blank text, numbers and the numeral of a number
CondValueSets ==
    {NoValues} \cup
    {Put(NoValues, K_FLOORS, v) :
       v \in {Null, NaN, Str(<<>>), Str(<<" ">>), Str(<<"3">>), Num(0), Num(3), Num(MaxNum)}}

\* the conditions of the rules handed to ruleMatches on their own: one
\* that holds from 5 floors on, one that holds below, one that lacks op
MatchConds ==
    {floorsGte5, Cond(Str(K_FLOORS), Str(OP_LT), Num(5)), Cond(Str(K_FLOORS), Undefined, Num(5))}

\* the rules handed to ruleMatches: when is absent, a primitive or a
\* condition; when_all and when_any hold up to two conditions
MatchRules ==
    {NullRule} \cup
    {Rule(Str(<<"r">>), w, all, any, Str(DENY), Undefined, Undefined) :
       w \in {NoCond, PrimitiveCond} \cup MatchConds,
       all \in SeqsOf(MatchConds, 0, 2),
       any \in SeqsOf(MatchConds, 0, 2)}

\* the targets of the comparisons handed to evalCond: absent, numbers,
\* numerals with and without white space, and texts that are no numeral
CompareTargets ==
    {Undefined, Num(3), Num(MaxNum), Str(<<"3">>), Str(<<" ","3"," ">>),
     Str(Z_R1), Str(Z_R1_PADDED), Str(<<"x">>)}

\* eq, neq, lt, lte, gt and gte on the key floors, and conditions that
\* are absent, primitive or lack key or op
CompareConds ==
    {NoCond, PrimitiveCond,
     Cond(Undefined, Str(OP_EQ), Num(3)),
     Cond(Str(<<>>), Str(OP_LT), Num(3)),
     Cond(Str(K_FLOORS), Undefined, Num(3)),
     Cond(Str(K_FLOORS), Str(<<>>), Num(3))}
    \cup
    {Cond(Str(K_FLOORS), Str(op), target) :
       op \in {OP_EQ, OP_NEQ, OP_LT, OP_LTE, OP_GT, OP_GTE},
       target \in CompareTargets}

\* the value sets handed to evalCond, and two where floors is a text
\* that is no numeral, with and without white space around it
CompareValueSets ==
    CondValueSets \cup {Put(NoValues, K_FLOORS, v) : v \in {Str(Z_R1), Str(Z_R1_PADDED)}}

(***************************************************************************)
(* The rule engine of the frontend, public/script.js: toNumFront,          *)
(* evalCondFront, ruleMatchesFront and evaluateAutoRules, here             *)
(* evaluateAutoRulesFront.                                                 *)
(***************************************************************************)
toNumFront(v) ==
    IF v = Str(<<>>) \/ IsNullish(v) THEN Null
    ELSE IF NumberOf(v).t = "number" THEN NumberOf(v) ELSE Null

\* evalCondFront once op and raw = values?.[key] are known, vNum and tNum
\* being toNumFront(raw) and toNumFront(cond.value)
evalOpFront(op, raw, target, vNum, tNum) ==
    IF op = OP_MISSING
    THEN IF IsNullish(raw) THEN TRUE
         ELSE IF raw.t \in {"number", "nan"} THEN raw.t # "number"
         ELSE Trim(StringOf(raw)) = <<>>
    ELSE IF op = OP_PRESENT
    THEN IF IsNullish(raw) THEN FALSE
         ELSE IF raw.t \in {"number", "nan"} THEN raw.t = "number"
         ELSE Trim(StringOf(raw)) # <<>>
    ELSE IF op = OP_IN
    THEN target.t = "array" /\ \E i \in 1..Len(target.a) : StringOf(target.a[i]) = StringOf(raw)
    ELSE IF op = OP_NOT_IN
    THEN ~(target.t = "array" /\ \E i \in 1..Len(target.a) : StringOf(target.a[i]) = StringOf(raw))
    ELSE IF op = OP_EQ
    THEN IF vNum.t # "null" /\ tNum.t # "null" THEN vNum.n = tNum.n
         ELSE StringOf(raw) = StringOf(target)
    ELSE IF op = OP_NEQ
    THEN IF vNum.t # "null" /\ tNum.t # "null" THEN vNum.n # tNum.n
         ELSE StringOf(raw) # StringOf(target)
    ELSE IF vNum.t = "null" \/ tNum.t = "null" THEN FALSE
    ELSE IF op = OP_LT THEN vNum.n < tNum.n
    ELSE IF op = OP_LTE THEN vNum.n <= tNum.n
    ELSE IF op = OP_GT THEN vNum.n > tNum.n
    ELSE IF op = OP_GTE THEN vNum.n >= tNum.n
    ELSE FALSE

evalCondFront(cond, values) ==
    IF cond.t = "undefined" \/ ~Truthy(cond.key) \/ ~Truthy(cond.op) THEN FALSE
    ELSE evalOpFront(ToLowerCase(Trim(StringOf(cond.op))),
                     Get(values, Trim(StringOf(cond.key))),
                     cond.value,
                     toNumFront(Get(values, Trim(StringOf(cond.key)))),
                     toNumFront(cond.value))

ruleMatchesFront(rule, values) ==
    IF rule.t = "null" THEN FALSE
    ELSE IF rule.when.t # "undefined" THEN evalCondFront(rule.when, values)
    ELSE IF Len(rule.when_all) > 0
         THEN \A i \in 1..Len(rule.when_all) : evalCondFront(rule.when_all[i], values)
    ELSE IF Len(rule.when_any) > 0
         THEN \E i \in 1..Len(rule.when_any) : evalCondFront(rule.when_any[i], values)
    ELSE FALSE

\* toNumFront(v) ?? 0, as an integer
toNumFrontOr0(v) == IF toNumFront(v).t = "null" THEN 0 ELSE toNumFront(v).n

\* the stable sort of evaluateAutoRules of public/script.js, by its
\* comparator (toNumFront(b.priority) ?? 0) - (toNumFront(a.priority) ?? 0)
RECURSIVE sortRulesFront(_)
sortRulesFront(rules) ==
    IF rules = <<>> THEN <<>>
    ELSE insertAt(sortRulesFront(SubSeq(rules, 1, Len(rules) - 1)), rules[Len(rules)],
                  Cardinality({i \in 1..(Len(rules) - 1) :
                     toNumFrontOr0(sortRulesFront(SubSeq(rules, 1, Len(rules) - 1))[i].priority)
                        - toNumFrontOr0(rules[Len(rules)].priority) >= 0}))

\* what the frontend returns for a matching rule: the message is
\* rule.message as it is, a JavaScript value
hitFront(rule) ==
    [t |-> "hit", result |-> normalizeStatus(rule.result), message |-> rule.message,
     rule_id |-> OrElse(rule.id, Null), priority |-> toNumFrontOr0(rule.priority)]

\* the loop over sorted: the record of the first rule that matches, or null
RECURSIVE firstMatchFront(_, _)
firstMatchFront(sorted, values) ==
    IF sorted = <<>> THEN NoHit
    ELSE IF ruleMatchesFront(Head(sorted), values) THEN hitFront(Head(sorted))
    ELSE firstMatchFront(Tail(sorted), values)

\* defined when the sort does not throw
evaluateAutoRulesFront(it, values) ==
    IF Len(it.auto_rules) = 0 THEN NoHit
    ELSE firstMatchFront(sortRulesFront(it.auto_rules), values)

(***************************************************************************)
(* The JSON file cache of functions/index.js: _jsonCache and               *)
(* readJsonFileSafe, for one file path.                                    *)
(***************************************************************************)
\* latest modification time of the file
MaxMtime == 3

\* the file as the file system holds it: its modification time and its
\* text; a file that does not exist keeps the time it was removed at
File(mtimeMs, raw) == [exists |-> TRUE, mtimeMs |-> mtimeMs, raw |-> raw]

Removed(mtimeMs) == [exists |-> FALSE, mtimeMs |-> mtimeMs, raw |-> <<>>]

NoFile == Removed(0)

\* _jsonCache.get(absPath): { mtimeMs, data }, or undefined
CacheEntry(mtimeMs, data) == [present |-> TRUE, mtimeMs |-> mtimeMs, data |-> data]

NoCache == [present |-> FALSE, mtimeMs |-> 0, data |-> Undefined]

\* JSON.parse(raw) on the texts of the model: a numeral is the number it
\* writes, any other text raises a SyntaxError
jsonParse(raw) ==
    IF AllDigits(raw) THEN [ok |-> TRUE, data |-> Num(DigitsVal(raw))]
    ELSE [ok |-> FALSE, data |-> Undefined]

\* the body of try once statSync has succeeded: the cached data when the
\* modification times are equal, otherwise the text read and parsed, and
\* stored in the cache; the fallback when the parse raises
readOrReuse(f, cached, fallback, parsed) ==
    IF cached.present /\ cached.mtimeMs = f.mtimeMs
    THEN [ret |-> cached.data, cache |-> cached]
    ELSE IF ~parsed.ok THEN [ret |-> fallback, cache |-> cached]
    ELSE [ret |-> parsed.data, cache |-> CacheEntry(f.mtimeMs, parsed.data)]

\* readJsonFileSafe(absPath, fallback): what it returns and the cache
\* entry after it; statSync raises on a file that does not exist
readJsonFileSafe(f, cached, fallback) ==
    IF ~f.exists THEN [ret |-> fallback, cache |-> cached]
    ELSE readOrReuse(f, cached, fallback, jsonParse(f.raw))

(***************************************************************************)
(* State.  One request (or one call of a function of the engine) is        *)
(* handled per behaviour: the initial state holds the request as it        *)
(* arrives (pc = "idle"), the step handles it (pc = "done") and leaves in  *)
(* the remaining variables what was returned.                              *)
(***************************************************************************)
VARIABLES
    pc,         \* "idle" | "done"
    call,       \* the route or function the request is for
    checklist,  \* items of checklists.json (getChecklistArray)
    engine,     \* engine.default_conditional of rule_engine.json
    ctx,        \* body.context
    rawValues,  \* body.values
    values,     \* the value set the rules were evaluated on
    http,       \* status of the response
    results,    \* data.results
    summary,    \* data.summary
    hit,        \* what evaluateAutoRules / evaluateFirstMatch returned
    pass,       \* what appliesToPass / passesAppliesTo returned
    laws,       \* the law store (laws.json)
    missing_refs, \* meta.missing_refs
    arg,        \* the argument of a function that is called on its own
    ret,        \* what that function returned
    file,       \* the JSON file readJsonFileSafe is called on
    jsonCache   \* the entry of _jsonCache for that file

vars == <<pc, call, checklist, engine, ctx, rawValues, values, http, results,
          summary, hit, pass, laws, missing_refs, arg, ret, file, jsonCache>>

NoContext == Context(Undefined, Undefined, Undefined, Undefined, Undefined, Undefined)

Threw == [t |-> "throw", result |-> <<>>, message |-> <<>>, rule_id |-> Null, priority |-> 0]

\* nothing has been computed yet
NoOutput ==
    /\ pc = "idle"
    /\ values = NoValues
    /\ http = 0
    /\ summary = NoSummary
    /\ hit = NoHit
    /\ pass = FALSE
    /\ missing_refs = <<>>
    /\ ret = Undefined
    /\ file = NoFile
    /\ jsonCache = NoCache

\* a judge request arrives at one of the two servers
Init ==
    /\ NoOutput
    /\ laws = NoLaws
    /\ arg = Undefined
    /\ results = <<>>
    /\ call \in {"cf_judge", "idx_judge"}
    /\ \/ /\ checklist \in SingleChecklists
          /\ engine \in SingleEngines
          /\ ctx \in SingleContexts
          /\ rawValues \in ValueSets
       \/ /\ checklist \in MultiChecklists
          /\ engine \in MultiEngines
          /\ ctx \in JudgeContexts
          /\ rawValues \in FloorsValueSets
       \/ /\ checklist \in SingleChecklists
          /\ engine = <<>>
          /\ ctx \in MetricContexts
          /\ rawValues \in MetricValueSets

\* POST /api/checklists/judge of functions/api/[[path]].js
CfJudge ==
    /\ pc = "idle"
    /\ call = "cf_judge"
    /\ pc' = "done"
    /\ \E r \in {cfJudge(checklist, engine, ctx, rawValues, laws)} :
          /\ values' = r.values
          /\ http' = r.http
          /\ results' = r.results
          /\ summary' = r.summary
          /\ missing_refs' = r.missing_refs
    /\ UNCHANGED <<file, jsonCache, arg, ret, laws, call, checklist, engine, ctx, rawValues,
                   hit, pass>>

\* POST /api/checklists/judge of functions/index.js
IdxJudge ==
    /\ pc = "idle"
    /\ call = "idx_judge"
    /\ pc' = "done"
    /\ \E r \in {idxJudge(checklist, engine, ctx, rawValues, laws)} :
          /\ values' = r.values
          /\ http' = r.http
          /\ results' = r.results
          /\ summary' = r.summary
          /\ missing_refs' = r.missing_refs
    /\ UNCHANGED <<file, jsonCache, arg, ret, laws, call, checklist, engine, ctx, rawValues,
                   hit, pass>>

Next == CfJudge \/ IdxJudge

Spec == Init /\ [][Next]_vars

(***************************************************************************)
(* SpecRules: evaluateAutoRules and evaluateFirstMatch on their own, and   *)
(* evaluateAutoRules of public/script.js.                                  *)
(***************************************************************************)
InitRules ==
    /\ NoOutput
    /\ laws = NoLaws
    /\ arg = Undefined
    /\ results = <<>>
    /\ call \in {"evaluateAutoRules", "evaluateFirstMatch", "evaluateAutoRulesFront"}
    /\ checklist = <<>>
    /\ engine \in {<<EngineItem(Str(ID_A), Undefined, Undefined, rules, <<>>)>> :
                     rules \in SeqsOf(RuleUniverse, 0, MaxRules)}
    /\ ctx = NoContext
    /\ rawValues \in FloorsValueSets

\* one call of evaluateAutoRules(engineItem, values)
CallEvaluateAutoRules ==
    /\ pc = "idle"
    /\ call = "evaluateAutoRules"
    /\ pc' = "done"
    /\ values' = rawValues
    /\ hit' = IF sortThrows(engine[1].auto_rules) THEN Threw
              ELSE evaluateAutoRules(engine[1], rawValues)
    /\ UNCHANGED <<file, jsonCache, arg, ret, laws, missing_refs, call, checklist, engine, ctx,
                   rawValues, http, results, summary, pass>>

\* one call of evaluateFirstMatch(autoRules, values) of functions/index.js
CallEvaluateFirstMatch ==
    /\ pc = "idle"
    /\ call = "evaluateFirstMatch"
    /\ pc' = "done"
    /\ values' = rawValues
    /\ hit' = IF sortThrows(engine[1].auto_rules) THEN Threw
              ELSE evaluateFirstMatch(engine[1].auto_rules, rawValues)
    /\ UNCHANGED <<file, jsonCache, arg, ret, laws, missing_refs, call, checklist, engine, ctx,
                   rawValues, http, results, summary, pass>>

\* one call of evaluateAutoRules(it, values) of public/script.js
CallEvaluateAutoRulesFront ==
    /\ pc = "idle"
    /\ call = "evaluateAutoRulesFront"
    /\ pc' = "done"
    /\ values' = rawValues
    /\ ret' = IF sortThrows(engine[1].auto_rules) THEN Threw
              ELSE evaluateAutoRulesFront(engine[1], rawValues)
    /\ UNCHANGED <<file, jsonCache, arg, hit, laws, missing_refs, call, checklist, engine, ctx,
                   rawValues, http, results, summary, pass>>

NextRules == CallEvaluateAutoRules \/ CallEvaluateFirstMatch \/ CallEvaluateAutoRulesFront

SpecRules == InitRules /\ [][NextRules]_vars

(***************************************************************************)
(* SpecApplies: appliesToPass and passesAppliesTo on their own.            *)
(***************************************************************************)
InitApplies ==
    /\ NoOutput
    /\ laws = NoLaws
    /\ arg = Undefined
    /\ results = <<>>
    /\ call \in {"appliesToPass", "passesAppliesTo"}
    /\ checklist \in {<<ChecklistItem(Str(ID_A), <<>>, <<>>, a)>> : a \in AppliesToInputs}
    /\ engine = <<>>
    /\ ctx \in AppliesContexts
    /\ rawValues = NoValues

\* one call of appliesToPass(item, ctx) of functions/api/[[path]].js
CallAppliesToPass ==
    /\ pc = "idle"
    /\ call = "appliesToPass"
    /\ pc' = "done"
    /\ pass' = appliesToPass(checklist[1], ctx)
    /\ UNCHANGED <<file, jsonCache, arg, ret, laws, missing_refs, call, checklist, engine, ctx,
                   rawValues, values, http, results, summary, hit>>

\* one call of passesAppliesTo(item, ctx) of functions/index.js
CallPassesAppliesTo ==
    /\ pc = "idle"
    /\ call = "passesAppliesTo"
    /\ pc' = "done"
    /\ pass' = passesAppliesTo(checklist[1], ctx)
    /\ UNCHANGED <<file, jsonCache, arg, ret, laws, missing_refs, call, checklist, engine, ctx,
                   rawValues, values, http, results, summary, hit>>

NextApplies == CallAppliesToPass \/ CallPassesAppliesTo

SpecApplies == InitApplies /\ [][NextApplies]_vars

(***************************************************************************)
(* SpecSummary: summarizeResults, on its own and within the route of       *)
(* functions/api/[[path]].js.                                              *)
(***************************************************************************)
InitSummary ==
    \/ /\ NoOutput
       /\ laws = NoLaws
       /\ arg = Undefined
       /\ call = "summarizeResults"
       /\ results \in ResultLists \cup MissingResultLists
       /\ checklist = <<>>
       /\ engine = <<>>
       /\ ctx = NoContext
       /\ rawValues = NoValues
    \/ /\ Init
       /\ call = "cf_judge"

\* one call of summarizeResults(results)
CallSummarizeResults ==
    /\ pc = "idle"
    /\ call = "summarizeResults"
    /\ pc' = "done"
    /\ summary' = summarizeResults(results)
    /\ UNCHANGED <<file, jsonCache, arg, ret, laws, missing_refs, call, checklist, engine, ctx,
                   rawValues, values, http, results, hit, pass>>

NextSummary == CallSummarizeResults \/ CfJudge

SpecSummary == InitSummary /\ [][NextSummary]_vars

(***************************************************************************)
(* SpecMerge: mergeJudgeValues on its own.                                 *)
(***************************************************************************)
InitMerge ==
    /\ NoOutput
    /\ laws = NoLaws
    /\ arg = Undefined
    /\ results = <<>>
    /\ call = "mergeJudgeValues"
    /\ checklist = <<>>
    /\ engine = <<>>
    /\ ctx \in MergeContexts
    /\ rawValues \in MergeValueSets

\* one call of mergeJudgeValues(ctx, values)
CallMergeJudgeValues ==
    /\ pc = "idle"
    /\ call = "mergeJudgeValues"
    /\ pc' = "done"
    /\ values' = mergeJudgeValues(ctx, rawValues)
    /\ UNCHANGED <<file, jsonCache, arg, ret, laws, missing_refs, call, checklist, engine, ctx,
                   rawValues, http, results, summary, hit, pass>>

NextMerge == CallMergeJudgeValues

SpecMerge == InitMerge /\ [][NextMerge]_vars

(***************************************************************************)
(* SpecFrame: evaluations of the route of functions/api/[[path]].js, one   *)
(* after the other, over the same checklist and rule-engine definitions.   *)
(* An evaluation goes through mergeJudgeValues, the applies_to filter,     *)
(* judgeOneItem for each item kept and summarizeResults; each step leaves  *)
(* in checklist, engine, ctx and rawValues what the objects received hold  *)
(* after it.                                                               *)
(***************************************************************************)
InitFrame ==
    /\ NoOutput
    /\ laws = NoLaws
    /\ arg = Undefined
    /\ results = <<>>
    /\ call = "frame"
    /\ checklist \in MultiChecklists
    /\ engine \in FrameEngines
    /\ ctx \in FrameContexts
    /\ rawValues \in FloorsValueSets

\* const values = mergeJudgeValues(ctx, rawValues)
FrameMerge ==
    /\ pc = "idle"
    /\ call = "frame"
    /\ pc' = "merged"
    /\ \E h \in {copyThenWrite(rawValues, mergeJudgeValues(ctx, rawValues))} :
          /\ rawValues' = h.receiver
          /\ values' = h.copy
    /\ UNCHANGED <<file, jsonCache, arg, ret, laws, missing_refs, call, checklist, engine, ctx,
                   http, results, summary, hit, pass>>

\* const ctxForFilter = { ...(ctx || {}) } with its metrics, and
\* items.filter(...); pass tells whether an item is kept
FrameFilter ==
    /\ pc = "merged"
    /\ call = "frame"
    /\ pc' = "judging"
    /\ \E h \in {copyThenWrite(ctx, ctxForFilter(ctx, values))} :
          /\ ctx' = h.receiver
          /\ pass' = (keptIndices(checklist, h.copy, 1) # <<>>)
    /\ UNCHANGED <<file, jsonCache, arg, ret, laws, missing_refs, call, checklist, engine,
                   rawValues, values, http, results, summary, hit>>

\* the callback of filtered.map on the next item kept, kept being the
\* indices of the items kept and it the item: a sort that throws ends the
\* evaluation with the 500 response
FrameJudgeNext(kept, it) ==
    IF sortThrows(fallbackEngine(engine, idOf(it)).auto_rules)
    THEN /\ pc' = "done"
         /\ http' = 500
         /\ results' = <<>>
         /\ missing_refs' = <<>>
         /\ engine' = engine
    ELSE /\ pc' = "judging"
         /\ http' = http
         /\ \E cb \in {judgeCallback(it, engine, values, lawsMapOf(laws), missing_refs)} :
               /\ results' = Append(results, cb.result)
               /\ missing_refs' = cb.missing
         /\ engine' = engineAfterJudge(engine, engineIndex(engine, idOf(it)))

FrameJudgeItem ==
    /\ pc = "judging"
    /\ call = "frame"
    /\ \E kept \in {keptIndices(checklist, ctxForFilter(ctx, values), 1)} :
          /\ Len(results) < Len(kept)
          /\ FrameJudgeNext(kept, checklist[kept[Len(results) + 1]])
    /\ UNCHANGED <<file, jsonCache, arg, ret, laws, call, checklist, ctx, rawValues, values,
                   summary, hit, pass>>

\* const summary = summarizeResults(results), and the 200 response
FrameSummarize ==
    /\ pc = "judging"
    /\ call = "frame"
    /\ Len(results) = Len(keptIndices(checklist, ctxForFilter(ctx, values), 1))
    /\ pc' = "done"
    /\ http' = 200
    /\ summary' = summarizeResults(results)
    /\ UNCHANGED <<file, jsonCache, arg, ret, laws, missing_refs, call, checklist, engine, ctx,
                   rawValues, values, results, hit, pass>>

\* the next request arrives: another context and value set, the same
\* definitions
FrameAgain ==
    /\ pc = "done"
    /\ call = "frame"
    /\ pc' = "idle"
    /\ ctx' \in FrameContexts
    /\ rawValues' \in FloorsValueSets
    /\ values' = NoValues
    /\ http' = 0
    /\ results' = <<>>
    /\ summary' = NoSummary
    /\ pass' = FALSE
    /\ missing_refs' = <<>>
    /\ UNCHANGED <<file, jsonCache, arg, ret, laws, call, checklist, engine, hit>>

NextFrame == FrameMerge \/ FrameFilter \/ FrameJudgeItem \/ FrameSummarize \/ FrameAgain

SpecFrame == InitFrame /\ [][NextFrame]_vars

(***************************************************************************)
(* SpecLaws: the judge routes on checklists whose items name laws, over    *)
(* several law stores.                                                     *)
(***************************************************************************)
InitLaws ==
    /\ NoOutput
    /\ laws \in LawStores
    /\ arg = Undefined
    /\ results = <<>>
    /\ call \in {"cf_judge", "idx_judge"}
    /\ checklist \in LawChecklists
    /\ engine \in FrameEngines
    /\ ctx \in FrameContexts
    /\ rawValues \in FloorsValueSets

NextLaws == CfJudge \/ IdxJudge

SpecLaws == InitLaws /\ [][NextLaws]_vars

(***************************************************************************)
(* SpecCalls: normalizeStatus, evalCond and ruleMatches of                 *)
(* functions/api/[[path]].js on their own.                                 *)
(***************************************************************************)
InitCalls ==
    /\ NoOutput
    /\ laws = NoLaws
    /\ results = <<>>
    /\ checklist = <<>>
    /\ engine = <<>>
    /\ ctx = NoContext
    /\ \/ /\ call = "normalizeStatus"
          /\ arg \in StatusInputs
          /\ rawValues = NoValues
       \/ /\ call = "evalCond"
          /\ arg \in CondInputs \cup CompareConds
          /\ rawValues \in CompareValueSets
       \/ /\ call = "ruleMatches"
          /\ arg \in MatchRules
          /\ rawValues \in FloorsValueSets

\* one call of normalizeStatus(s)
CallNormalizeStatus ==
    /\ pc = "idle"
    /\ call = "normalizeStatus"
    /\ pc' = "done"
    /\ ret' = normalizeStatus(arg)
    /\ UNCHANGED <<file, jsonCache, arg, laws, missing_refs, call, checklist, engine, ctx,
                   rawValues, values, http, results, summary, hit, pass>>

\* one call of evalCond(cond, values)
CallEvalCond ==
    /\ pc = "idle"
    /\ call = "evalCond"
    /\ pc' = "done"
    /\ ret' = evalCond(arg, rawValues)
    /\ UNCHANGED <<file, jsonCache, arg, laws, missing_refs, call, checklist, engine, ctx,
                   rawValues, values, http, results, summary, hit, pass>>

\* one call of ruleMatches(rule, values)
CallRuleMatches ==
    /\ pc = "idle"
    /\ call = "ruleMatches"
    /\ pc' = "done"
    /\ ret' = ruleMatches(arg, rawValues)
    /\ UNCHANGED <<file, jsonCache, arg, laws, missing_refs, call, checklist, engine, ctx,
                   rawValues, values, http, results, summary, hit, pass>>

NextCalls == CallNormalizeStatus \/ CallEvalCond \/ CallRuleMatches

SpecCalls == InitCalls /\ [][NextCalls]_vars

(***************************************************************************)
(* SpecCache: loads of one JSON file through readJsonFileSafe, while the   *)
(* file is written and removed.  pc is "done" from a load until the file   *)
(* changes next.                                                           *)
(***************************************************************************)
\* the texts the file may hold: two numerals and a text that is no JSON
FileTexts == {<<"1">>, <<"2">>, <<"{">>}

\* the fallback of the caller: the default null, or a value of its own
Fallbacks == {Null, Str(<<"f">>)}

InitCache ==
    /\ pc = "idle"
    /\ call = "readJsonFileSafe"
    /\ arg \in Fallbacks
    /\ file \in {NoFile} \cup {File(1, raw) : raw \in FileTexts}
    /\ jsonCache = NoCache
    /\ ret = Undefined
    /\ laws = NoLaws
    /\ results = <<>>
    /\ checklist = <<>>
    /\ engine = <<>>
    /\ ctx = NoContext
    /\ rawValues = NoValues
    /\ values = NoValues
    /\ http = 0
    /\ summary = NoSummary
    /\ hit = NoHit
    /\ pass = FALSE
    /\ missing_refs = <<>>

\* the file is written, or created, with another text: its modification
\* time is the time of the write, which is the time of the change before
\* it when the clock of the file system has not advanced in between
FileWrite ==
    /\ \E raw \in FileTexts \ {file.raw} :
       \E m \in file.mtimeMs..MaxMtime :
          /\ m >= 1
          /\ file' = File(m, raw)
    /\ pc' = "idle"
    /\ UNCHANGED <<jsonCache, arg, ret, laws, missing_refs, call, checklist, engine,
                   ctx, rawValues, values, http, results, summary, hit, pass>>

\* the file is removed
FileRemove ==
    /\ file.exists
    /\ file' = Removed(file.mtimeMs)
    /\ pc' = "idle"
    /\ UNCHANGED <<jsonCache, arg, ret, laws, missing_refs, call, checklist, engine,
                   ctx, rawValues, values, http, results, summary, hit, pass>>

\* one call of readJsonFileSafe(absPath, fallback), arg being the fallback
CallReadJsonFileSafe ==
    /\ call = "readJsonFileSafe"
    /\ pc' = "done"
    /\ \E r \in {readJsonFileSafe(file, jsonCache, arg)} :
          /\ ret' = r.ret
          /\ jsonCache' = r.cache
    /\ UNCHANGED <<file, arg, laws, missing_refs, call, checklist, engine,
                   ctx, rawValues, values, http, results, summary, hit, pass>>

NextCache == FileWrite \/ FileRemove \/ CallReadJsonFileSafe

SpecCache == InitCache /\ [][NextCache]_vars

(***************************************************************************)
(* SpecShapes: the enriched route and the judge route of                   *)
(* functions/api/[[path]].js on the same definitions and context, the      *)
(* request stating no values.                                              *)
(***************************************************************************)
\* a rule on the zoning of the context
RuleZoningR1 ==
    Rule(Str(<<"r","Z">>), Cond(Str(K_ZONING), Str(OP_EQ), Str(Z_R1)), <<>>, <<>>,
         Str(DENY), Str(<<"m","Z">>), Num(10))

ShapeChecklists ==
    {<<>>} \cup
    {<<ChecklistItem(Str(ID_A), inp, <<>>, a)>> :
       inp \in {<<>>, <<Input(Str(K_ZONING), Undefined)>>,
                <<Input(Str(K_FLOORS), Undefined), Input(Str(K_ROAD_WIDTH_M), Undefined)>>},
       a \in {NoAppliesTo, MinFloorsAndArea5, ZoningR1Only}}

ShapeEngines ==
    {<<>>} \cup
    {<<EngineItem(Str(ID_A), dr, defaultMessageOf(dr), rules, <<>>)>> :
       dr \in {Undefined, Str(NEED_INPUT)},
       rules \in {<<>>, <<RuleDeny10>>, <<RuleAllow0>>, <<RuleNeedInput7>>,
                  <<RuleZoningR1>>, <<NullRule, RuleDeny10>>}}

InitShapes ==
    /\ NoOutput
    /\ laws = NoLaws
    /\ arg = Undefined
    /\ results = <<>>
    /\ call \in {"cf_enriched", "cf_judge"}
    /\ checklist \in ShapeChecklists
    /\ engine \in ShapeEngines
    /\ ctx \in JudgeContexts \cup MetricContexts
    /\ rawValues = NoValues

\* GET /api/checklists/enriched of functions/api/[[path]].js, the query
\* string stating the context
CfEnriched ==
    /\ pc = "idle"
    /\ call = "cf_enriched"
    /\ pc' = "done"
    /\ \E r \in {cfEnriched(checklist, engine, ctx)} :
          /\ values' = r.values
          /\ http' = r.http
          /\ results' = r.results
    /\ UNCHANGED <<file, jsonCache, arg, ret, laws, missing_refs, summary, call,
                   checklist, engine, ctx, rawValues, hit, pass>>

NextShapes == CfEnriched \/ CfJudge

SpecShapes == InitShapes /\ [][NextShapes]_vars

(***************************************************************************)
(* Properties.  The operators below state what is checked; they read the   *)
(* request and the response and model no code.                             *)
(***************************************************************************)
\* the route of functions/api/[[path]].js has answered 200
CfJudged == pc = "done" /\ call = "cf_judge" /\ http = 200

\* the route of functions/index.js has answered 200
IdxJudged == pc = "done" /\ call = "idx_judge" /\ http = 200

\* the indices of the rules of a list that match a value set
Matching(rules, vals) == {i \in 1..Len(rules) : ruleMatches(rules[i], vals)}

\* the priority of a rule, a missing one counting as 0
PriorityOf(rule) == toNumOr0(rule.priority)

\* rule i matches and no matching rule has a higher priority, or the same
\* priority and an earlier place in the list
IsSelected(rules, vals, i) ==
    /\ i \in Matching(rules, vals)
    /\ \A j \in Matching(rules, vals) :
          \/ PriorityOf(rules[j]) < PriorityOf(rules[i])
          \/ PriorityOf(rules[j]) = PriorityOf(rules[i]) /\ i <= j

\* the rule the claims call selected
SelectedRule(rules, vals) == rules[CHOOSE i \in 1..Len(rules) : IsSelected(rules, vals, i)]

\* the rule-engine entry an id is judged with
EntryOf(id) == fallbackEngine(engine, id)

\* the status the rules of an entry resolve to, before the guard:
\* the selected rule's when one matches, dflt otherwise
ResolvedFrom(eng, vals, dflt) ==
    IF Matching(eng.auto_rules, vals) # {}
    THEN normalizeStatus(SelectedRule(eng.auto_rules, vals).result)
    ELSE normalizeStatus(dflt)

\* C1: every status the judge route of functions/api/[[path]].js returns
\* for an item is one of allow, conditional, deny, need_input, unknown,
\* whatever the rules, the default result and the values; also when the
\* item has no rule-engine entry.
C1_StatusIsCanonical ==
    CfJudged => \A k \in 1..Len(results) : results[k].status \in Statuses

\* a rule whose result is no status matched, and the item is unknown
C1_Witness ==
    /\ CfJudged
    /\ Len(engine) = 1
    /\ engine[1].auto_rules = <<RuleFoo5>>
    /\ Len(results) = 1
    /\ results[1].judge.t = "hit"
    /\ results[1].status = UNKNOWN

\* C2 as it is stated: the status of every judged item is the normalized
\* result of the selected rule when a rule matches, and the normalized
\* rule_set.default_result otherwise.
C2_Original ==
    CfJudged =>
        \A k \in 1..Len(results) :
           results[k].status =
              ResolvedFrom(EntryOf(results[k].id), values,
                           EntryOf(results[k].id).rule_set.default_result)

\* the status of C2 after the guard of judgeOneItem: need_input with no
\* missing input is conditional
Guarded(status, missing_inputs) ==
    IF status = NEED_INPUT /\ missing_inputs = <<>> THEN CONDITIONAL ELSE status

\* Scenarios A and B: the single rule {floors gte 5 -> deny, priority 10}
\* and the default allow
ScenarioAB ==
    /\ Len(engine) = 1
    /\ engine[1].auto_rules = <<RuleDeny10>>
    /\ engine[1].rule_set.default_result = Str(ALLOW)
    /\ Len(results) = 1
    /\ results[1].id = StringOf(engine[1].id)

\* C2: the status of every judged item is the normalized result of the
\* selected rule when a rule matches, and otherwise the normalized
\* rule_set.default_result, conditional standing for a default_result that
\* is absent or empty; in both cases a need_input with no missing input is
\* returned as conditional.  With the single rule {floors gte 5 -> deny,
\* priority 10} and the default allow, floors = 6 gives deny and floors = 3
\* gives allow.
C2_StatusFromRuleOrDefault ==
    CfJudged =>
        /\ \A k \in 1..Len(results) :
              results[k].status =
                 Guarded(ResolvedFrom(EntryOf(results[k].id), values,
                                      OrElse(EntryOf(results[k].id).rule_set.default_result,
                                             Str(CONDITIONAL))),
                         results[k].missing_inputs)
        /\ (ScenarioAB /\ Get(values, K_FLOORS) = Num(6)) => results[1].status = DENY
        /\ (ScenarioAB /\ Get(values, K_FLOORS) = Num(3)) => results[1].status = ALLOW

\* a rule whose result is need_input matched an item that misses no
\* input: the item is conditional
C2_Witness ==
    /\ CfJudged
    /\ Len(engine) = 1
    /\ engine[1].auto_rules = <<RuleNeedInput7>>
    /\ engine[1].rule_set.default_result = Str(ALLOW)
    /\ Len(results) = 1
    /\ results[1].judge.t = "hit"
    /\ results[1].judge.result = NEED_INPUT
    /\ results[1].missing_inputs = <<>>
    /\ results[1].status = CONDITIONAL

\* the match record of a rule, as evaluateAutoRules returns it
MatchRecord(rule) ==
    [t |-> "hit",
     result |-> normalizeStatus(rule.result),
     message |-> Trim(StringOf(OrElse(rule.message, Str(<<>>)))),
     rule_id |-> OrElse(rule.id, Null),
     priority |-> PriorityOf(rule)]

\* C3: whenever evaluateAutoRules returns, it returns null exactly when no
\* rule of the list matches (an empty list included); otherwise it returns
\* the record of the matching rule of the highest priority (a missing
\* priority counting as 0) and, among matching rules of that priority, of
\* the one declared first; so a matching rule whose priority is strictly
\* above that of every other rule of the list is returned wherever it
\* stands in the list.
C3_SelectFirstMatch ==
    (pc = "done" /\ call = "evaluateAutoRules" /\ hit # Threw) =>
        /\ (hit = NoHit) <=> (Matching(engine[1].auto_rules, values) = {})
        /\ hit # NoHit =>
              \E i \in 1..Len(engine[1].auto_rules) :
                 /\ IsSelected(engine[1].auto_rules, values, i)
                 /\ hit = MatchRecord(engine[1].auto_rules[i])
        /\ \A i \in Matching(engine[1].auto_rules, values) :
              (\A j \in (1..Len(engine[1].auto_rules)) \ {i} :
                  PriorityOf(engine[1].auto_rules[j]) < PriorityOf(engine[1].auto_rules[i]))
              => hit = MatchRecord(engine[1].auto_rules[i])

\* three matching rules, the first of a lower priority, the other two of
\* the same priority: the second of the list is returned
C3_Witness ==
    /\ pc = "done"
    /\ call = "evaluateAutoRules"
    /\ engine[1].auto_rules = <<RuleFoo5, RuleWarn10, RuleDeny10>>
    /\ Matching(engine[1].auto_rules, values) = {1, 2, 3}
    /\ hit = MatchRecord(RuleWarn10)

\* v is absent or equals no member of a non-empty list
NotMember(list, v) ==
    /\ list # <<>>
    /\ v.t = "undefined" \/ ~\E m \in 1..Len(list) : list[m] = v

\* the text of v, "" for an absent v, equals the text of no member of a
\* non-empty list, surrounding white space being ignored on both sides
NotMemberTrimmed(list, v) ==
    /\ list # <<>>
    /\ ~\E m \in 1..Len(list) :
          Trim(StringOf(list[m])) = Trim(StringOf(OrElse(v, Str(<<>>))))

\* the items of the checklist that are judged with the id of item i
SameId(i) == {j \in 1..Len(checklist) : idOf(checklist[j]) = idOf(checklist[i])}

\* the items of the set X are left out of the results: the filter rejects
\* each of them, the results are at most as many as the other items, and
\* an id that only items of X bear is the id of no result
LeftOut(X) ==
    /\ \A i \in X : ~appliesToPass(checklist[i], ctxForFilter(ctx, values))
    /\ Len(results) <= Len(checklist) - Cardinality(X)
    /\ \A i \in X :
          SameId(i) \subseteq X => \A k \in 1..Len(results) : results[k].id # idOf(checklist[i])

\* C4 as it is stated: an item with a non-empty zoning_in, use_in or
\* jurisdiction_in of which the context's value is absent or no member is
\* left out of the results.
C4_Original ==
    CfJudged =>
        LeftOut({i \in 1..Len(checklist) :
                   /\ checklist[i].applies_to.present
                   /\ \/ NotMember(checklist[i].applies_to.zoning_in, ctx.zoning)
                      \/ NotMember(checklist[i].applies_to.use_in, ctx.use)
                      \/ NotMember(checklist[i].applies_to.jurisdiction_in, ctx.jurisdiction)})

\* C4: an item with a non-empty zoning_in (resp. use_in, jurisdiction_in)
\* is rejected by appliesToPass and left out of the results when the
\* context's zoning (resp. use, jurisdiction), taken as "" when absent,
\* equals no member of the list after both are trimmed of surrounding
\* white space.
C4_MembershipExcludes ==
    CfJudged =>
        LeftOut({i \in 1..Len(checklist) :
                   /\ checklist[i].applies_to.present
                   /\ \/ NotMemberTrimmed(checklist[i].applies_to.zoning_in, ctx.zoning)
                      \/ NotMemberTrimmed(checklist[i].applies_to.use_in, ctx.use)
                      \/ NotMemberTrimmed(checklist[i].applies_to.jurisdiction_in,
                                          ctx.jurisdiction)})

\* Scenario D: an item for the zoning R1 only, a context of the zoning C1,
\* and a result for the other item alone
C4_Witness ==
    /\ CfJudged
    /\ Len(checklist) = 2
    /\ checklist[1].applies_to = ZoningR1Only
    /\ checklist[2].applies_to = NoAppliesTo
    /\ ctx.zoning = Str(Z_C1)
    /\ Len(results) = 1
    /\ results[1].id = idOf(checklist[2])

\* a numeric threshold that is present, and a metric that is known
IsThreshold(min) == ~IsNullish(min) /\ toNum(min) # Null

IsKnown(cur) == toNum(cur) # Null

\* the metric is known and strictly below the threshold
Below(min, cur) == IsThreshold(min) /\ IsKnown(cur) /\ toNum(cur).n < toNum(min).n

\* the threshold cannot be evaluated: the metric is unknown
Unevaluable(min, cur) == IsThreshold(min) /\ ~IsKnown(cur)

\* v is literally a member of the list, or the list is empty
ListedOrFree(list, v) == list = <<>> \/ \E m \in 1..Len(list) : list[m] = v

\* C5: an item whose set-membership fields pass, of which no threshold has
\* a known metric below it and at least one threshold has an unknown
\* metric, passes the filter, in appliesToPass of functions/api/[[path]].js
\* and in passesAppliesTo of functions/index.js.
C5_LenientOnUnknown ==
    (pc = "done" /\ call \in {"appliesToPass", "passesAppliesTo"}) =>
        \A a \in {checklist[1].applies_to} :
           ( /\ a.present
             /\ ListedOrFree(a.zoning_in, ctx.zoning)
             /\ ListedOrFree(a.use_in, ctx.use)
             /\ ListedOrFree(a.jurisdiction_in, ctx.jurisdiction)
             /\ ~Below(a.min_floors, ctx.floors)
             /\ ~Below(a.min_height_m, ctx.height_m)
             /\ ~Below(a.min_gross_area_m2, ctx.gross_area_m2)
             /\ \/ Unevaluable(a.min_floors, ctx.floors)
                \/ Unevaluable(a.min_height_m, ctx.height_m)
                \/ Unevaluable(a.min_gross_area_m2, ctx.gross_area_m2) )
           => pass

\* passesAppliesTo rejects an item whose only condition is min_floors, the
\* context stating no floors
C5_Witness ==
    /\ pc = "done"
    /\ call = "passesAppliesTo"
    /\ checklist[1].applies_to = AppliesTo(<<>>, <<>>, <<>>, Threshold, Undefined, Undefined)
    /\ ctx.floors = Undefined
    /\ ~pass

\* C6: appliesToPass rejects an item as soon as one of its thresholds has
\* a known metric strictly below it, whatever the other thresholds and
\* metrics are.
C6_KnownBelowExcludes ==
    (pc = "done" /\ call = "appliesToPass") =>
        \A a \in {checklist[1].applies_to} :
           ( /\ a.present
             /\ \/ Below(a.min_floors, ctx.floors)
                \/ Below(a.min_height_m, ctx.height_m)
                \/ Below(a.min_gross_area_m2, ctx.gross_area_m2) )
           => ~pass

\* appliesToPass accepts an item of min_floors 5 and min_gross_area_m2 5
\* for a context of 3 floors that states no area
C6_Witness ==
    /\ pc = "done"
    /\ call = "appliesToPass"
    /\ checklist[1].applies_to = AppliesTo(<<>>, <<>>, <<>>, Threshold, Undefined, Threshold)
    /\ ctx.floors = Num(3)
    /\ ctx.gross_area_m2 = Undefined
    /\ pass

\* no entry of the rule engine bears the id
NoEntry(id) == \A e \in 1..Len(engine) : StringOf(engine[e].id) # id

\* the inputs of an item, bare keys included, whose value is missing
MissingOf(item) ==
    {i \in 1..Len(item.inputs) : isMissingValue(Get(values, StringOf(item.inputs[i].key)))}

\* a list of missing inputs names exactly the missing inputs of an item,
\* each once
NamesMissingOf(missing_inputs, item) ==
    /\ Len(missing_inputs) = Cardinality(MissingOf(item))
    /\ \A i \in MissingOf(item) :
          \E m \in 1..Len(missing_inputs) :
             missing_inputs[m].key = StringOf(item.inputs[i].key)
    /\ \A m \in 1..Len(missing_inputs) :
          \E i \in MissingOf(item) :
             missing_inputs[m].key = StringOf(item.inputs[i].key)

\* C7: an item that passes the filter and whose id has no rule-engine
\* entry has a result all the same, and every result of such an id has
\* the status conditional, the default message, no matched rule
\* (matched_rule_id null, priority 0, judge null) and missing_inputs naming
\* every input of the item whose value is missing, none being optional.
C7_FallbackEngine ==
    CfJudged =>
        /\ \A i \in 1..Len(checklist) :
              ( /\ NoEntry(idOf(checklist[i]))
                /\ appliesToPass(checklist[i], ctxForFilter(ctx, values)) )
              => \E k \in 1..Len(results) : results[k].id = idOf(checklist[i])
        /\ \A k \in 1..Len(results) :
              NoEntry(results[k].id) =>
                 /\ results[k].status = CONDITIONAL
                 /\ results[k].message = DEFAULT_MESSAGE
                 /\ results[k].matched_rule_id = Null
                 /\ results[k].priority = 0
                 /\ results[k].judge = NoHit
                 /\ \E i \in 1..Len(checklist) :
                       /\ idOf(checklist[i]) = results[k].id
                       /\ NamesMissingOf(results[k].missing_inputs, checklist[i])

\* an item of two inputs, one a bare key, judged without a rule-engine
\* entry: conditional, and both inputs are missing
C7_Witness ==
    /\ CfJudged
    /\ engine = <<>>
    /\ Len(checklist) = 1
    /\ Len(checklist[1].inputs) = 2
    /\ Len(results) = 1
    /\ results[1].status = CONDITIONAL
    /\ Len(results[1].missing_inputs) = 2

\* C8: no item a judge route returns, in functions/api/[[path]].js or in
\* functions/index.js, has the status need_input together with an empty
\* missing_inputs.
C8_NeedInputHasMissing ==
    (CfJudged \/ IdxJudged) =>
        \A k \in 1..Len(results) :
           ~(results[k].status = NEED_INPUT /\ results[k].missing_inputs = <<>>)

\* the route of functions/index.js returns need_input, by the default
\* result, for an item that has no input
C8_Witness ==
    /\ IdxJudged
    /\ Len(checklist) = 1
    /\ checklist[1].inputs = <<>>
    /\ Len(engine) = 1
    /\ engine[1].rule_set.default_result = Str(NEED_INPUT)
    /\ engine[1].auto_rules = <<>>
    /\ Len(results) = 1
    /\ results[1].status = NEED_INPUT
    /\ results[1].missing_inputs = <<>>

\* summarizeResults has returned: called on its own, or by the route
Summarized == (pc = "done" /\ call = "summarizeResults") \/ CfJudged

\* some judged item has the status
Has(st) == \E k \in 1..Len(results) : results[k].status = st

\* Scenario E: the statuses allow, conditional, need_input, allow, unknown
ScenarioE ==
    /\ Len(results) = 5
    /\ results[1].status = ALLOW
    /\ results[2].status = CONDITIONAL
    /\ results[3].status = NEED_INPUT
    /\ results[4].status = ALLOW
    /\ results[5].status = UNKNOWN

\* C9: the overall status of a summary is deny if some item is deny, else
\* need_input if some item is need_input, else conditional if some item
\* is conditional, else allow if some item is allow, else unknown (so for
\* no item at all); the statuses allow, conditional, need_input, allow,
\* unknown give need_input and the counts 2, 1, 1, 0 (deny), 1.
C9_OverallStatus ==
    Summarized =>
        /\ summary.status =
              IF Has(DENY) THEN DENY
              ELSE IF Has(NEED_INPUT) THEN NEED_INPUT
              ELSE IF Has(CONDITIONAL) THEN CONDITIONAL
              ELSE IF Has(ALLOW) THEN ALLOW
              ELSE UNKNOWN
        /\ ScenarioE =>
              /\ summary.status = NEED_INPUT
              /\ summary.counts[ALLOW] = 2
              /\ summary.counts[CONDITIONAL] = 1
              /\ summary.counts[NEED_INPUT] = 1
              /\ summary.counts[DENY] = 0
              /\ summary.counts[UNKNOWN] = 1

\* Scenario E has been summarized
C9_Witness == pc = "done" /\ call = "summarizeResults" /\ ScenarioE

\* C10: in every summary the count of each of the five statuses is the
\* number of judged items of that status, total is the number of judged
\* items, the five counts add up to total, and in the route the judged
\* items are as many as the items of the checklist that pass the filter.
C10_CountsAndTotal ==
    Summarized =>
        /\ \A st \in Statuses :
              summary.counts[st] = Cardinality({k \in 1..Len(results) : results[k].status = st})
        /\ summary.total = Len(results)
        /\ summary.counts[ALLOW] + summary.counts[CONDITIONAL] + summary.counts[DENY]
              + summary.counts[NEED_INPUT] + summary.counts[UNKNOWN] = summary.total
        /\ CfJudged =>
              summary.total =
                 Cardinality({i \in 1..Len(checklist) :
                                appliesToPass(checklist[i], ctxForFilter(ctx, values))})

\* the route has judged one item of two, the other being filtered out,
\* and counted it
C10_Witness ==
    /\ CfJudged
    /\ Len(checklist) = 2
    /\ Len(results) = 1
    /\ results[1].status = DENY
    /\ summary.total = 1
    /\ summary.counts[DENY] = 1

\* the keys of the missing inputs of all judged items, as the items state
\* them
ItemMissingKeys ==
    UNION {{results[k].missing_inputs[m].key : m \in 1..Len(results[k].missing_inputs)} :
             k \in 1..Len(results)}

\* a list states each of its members once
NoDuplicates(list) == \A a, b \in 1..Len(list) : a # b => list[a] # list[b]

\* C11 as it is stated: the missing_inputs of a summary lists every key
\* that is missing in some judged item once, as the item states it, and
\* nothing else.
C11_Original ==
    Summarized =>
        /\ NoDuplicates(summary.missing_inputs)
        /\ Members(summary.missing_inputs) = ItemMissingKeys

\* C11: the missing_inputs of a summary lists once the key (never the
\* label) of every missing input of every judged item, trimmed of
\* surrounding white space, a key that is blank being left out, and
\* nothing else.
C11_MissingKeysUnion ==
    Summarized =>
        /\ NoDuplicates(summary.missing_inputs)
        /\ Members(summary.missing_inputs) = {Trim(k) : k \in ItemMissingKeys} \ {<<>>}

\* two items miss the same input, one of them under a padded key: the
\* summary names it once
C11_Witness ==
    /\ pc = "done"
    /\ call = "summarizeResults"
    /\ Len(results) = 2
    /\ results[1].missing_inputs = resultMissing(<<K_FLOORS, K_ROAD_WIDTH_M>>).missing_inputs
    /\ results[2].missing_inputs = resultMissing(<<K_ROAD_WIDTH_M_PADDED>>).missing_inputs
    /\ summary.missing_inputs = <<K_FLOORS, K_ROAD_WIDTH_M>>

\* the keys the context is merged under
WellKnownKeys == {K_ZONING, K_USE, K_JURISDICTION, K_FLOORS, K_HEIGHT_M, K_GROSS_AREA_M2}

\* what the context states for a well-known key
ContextField(key) ==
    CASE key = K_ZONING -> ctx.zoning
      [] key = K_USE -> ctx.use
      [] key = K_JURISDICTION -> ctx.jurisdiction
      [] key = K_FLOORS -> ctx.floors
      [] key = K_HEIGHT_M -> ctx.height_m
      [] OTHER -> ctx.gross_area_m2

\* the value a field of the context is merged as: a trimmed string, or a
\* number
ContextDerived(key) ==
    IF key \in {K_ZONING, K_USE, K_JURISDICTION}
    THEN Str(Trim(StringOf(ContextField(key))))
    ELSE toNum(ContextField(key))

\* the context states a value for the key: a non-empty string, or a
\* finite number
ContextStates(key) ==
    IF key \in {K_ZONING, K_USE, K_JURISDICTION}
    THEN Truthy(ContextField(key))
    ELSE toNum(ContextField(key)) # Null

\* C12: in the merged value set every key the caller's value set states
\* keeps the caller's value, whatever the context states for it; a
\* well-known key has a value derived from the context only when the
\* caller's value set does not state it; no other key is added.
C12_ValuesTakePrecedence ==
    (pc = "done" /\ call = "mergeJudgeValues") =>
        /\ \A key \in DOMAIN rawValues :
              key \in DOMAIN values /\ values[key] = rawValues[key]
        /\ \A key \in (DOMAIN values) \ (DOMAIN rawValues) :
              /\ key \in WellKnownKeys
              /\ ContextStates(key)
              /\ values[key] = ContextDerived(key)
        /\ \A key \in WellKnownKeys \ (DOMAIN rawValues) :
              ContextStates(key) => key \in DOMAIN values

\* the context and the caller both state floors, and only the context
\* states the zoning: the caller's floors and the context's zoning are
\* in the merged value set
C12_Witness ==
    /\ pc = "done"
    /\ call = "mergeJudgeValues"
    /\ ctx.floors = Num(3)
    /\ Get(rawValues, K_FLOORS) = Num(MaxNum)
    /\ Get(values, K_FLOORS) = Num(MaxNum)
    /\ ctx.zoning = Str(Z_R1_PADDED)
    /\ K_ZONING \notin DOMAIN rawValues
    /\ Get(values, K_ZONING) = Str(Z_R1)

\* the items of the request that pass the applies_to filter of the route
\* of functions/api/[[path]].js
KeptItems == keptIndices(checklist, ctxForFilter(ctx, values), 1)

\* some rule list of the rule engine holds a null entry
HasNullRule(eng) == \E i \in 1..Len(eng.auto_rules) : eng.auto_rules[i].t = "null"

\* C13: whatever malformed entries the auto_rules lists hold (a null rule,
\* a rule with no condition, an unrecognised result), the judge route of
\* functions/api/[[path]].js raises no error: it answers 200 with one
\* fully-formed judged item, of a canonical status, for every item that
\* passes the filter.
C13_NeverRaises ==
    (pc = "done" /\ call = "cf_judge") =>
        /\ http = 200
        /\ Len(results) = Len(KeptItems)
        /\ \A k \in 1..Len(results) :
              /\ results[k].id = idOf(checklist[KeptItems[k]])
              /\ results[k].status \in Statuses

\* two items pass the filter, the rules of the first are [null, rule]:
\* the route answers 500 and no item is judged
C13_Witness ==
    /\ pc = "done"
    /\ call = "cf_judge"
    /\ Len(checklist) = 2
    /\ Len(KeptItems) = 2
    /\ idOf(checklist[1]) # idOf(checklist[2])
    /\ HasNullRule(EntryOf(idOf(checklist[1])))
    /\ ~HasNullRule(EntryOf(idOf(checklist[2])))
    /\ http = 500
    /\ results = <<>>

\* the items of the request that pass the applies_to filter of the route
\* of functions/index.js
IdxKeptItems == idxKeptIndices(checklist, idxFilterContext(ctx, values), 1)

\* the required inputs of an item that have no value: the structured
\* inputs whose key is not among the optional inputs of the entry and
\* whose value is missing
RequiredMissing(item, eng) ==
    {i \in 1..Len(item.inputs) :
       /\ item.inputs[i].t = "object"
       /\ Truthy(item.inputs[i].key)
       /\ \A o \in 1..Len(eng.optional_inputs) :
             StringOf(eng.optional_inputs[o]) # StringOf(item.inputs[i].key)
       /\ isMissingValue(Get(values, StringOf(item.inputs[i].key)))}

\* a list of missing inputs lists a key
Lists(missing_inputs, key) == \E m \in 1..Len(missing_inputs) : missing_inputs[m].key = key

\* a judged item is conditional and lists every required input of its
\* item that has no value
StaysConditional(res, item, eng) ==
    /\ res.status = CONDITIONAL
    /\ \A i \in RequiredMissing(item, eng) :
          Lists(res.missing_inputs, StringOf(item.inputs[i].key))

\* C14: an item whose rules and default resolve to conditional and that
\* has a required input with no value is returned as conditional, with
\* that input in missing_inputs; by the route of functions/api/[[path]].js
\* and by the route of functions/index.js, whose status is the resolved
\* result itself.
C14_MissingKeepsConditional ==
    /\ CfJudged =>
          \A k \in 1..Len(results) :
             ( /\ ResolvedFrom(EntryOf(results[k].id), values,
                               OrElse(EntryOf(results[k].id).rule_set.default_result,
                                      Str(CONDITIONAL))) = CONDITIONAL
               /\ RequiredMissing(checklist[KeptItems[k]], EntryOf(results[k].id)) # {} )
             => StaysConditional(results[k], checklist[KeptItems[k]], EntryOf(results[k].id))
    /\ IdxJudged =>
          \A k \in 1..Len(results) :
             ( /\ results[k].status = CONDITIONAL
               /\ RequiredMissing(checklist[IdxKeptItems[k]],
                                  idxEngineOf(engine, checklist[IdxKeptItems[k]])) # {} )
             => StaysConditional(results[k], checklist[IdxKeptItems[k]],
                                 idxEngineOf(engine, checklist[IdxKeptItems[k]]))

\* the route of functions/index.js returns an item as conditional, by the
\* default result, whose only input is required and has no value, and
\* lists no missing input
C14_Witness ==
    /\ IdxJudged
    /\ Len(checklist) = 1
    /\ Len(checklist[1].inputs) = 1
    /\ checklist[1].inputs[1].t = "object"
    /\ checklist[1].inputs[1].key = Str(K_ROAD_WIDTH_M)
    /\ Len(engine) = 1
    /\ engine[1].optional_inputs = <<>>
    /\ engine[1].auto_rules = <<>>
    /\ K_ROAD_WIDTH_M \notin DOMAIN values
    /\ Len(results) = 1
    /\ results[1].status = CONDITIONAL
    /\ results[1].missing_inputs = <<>>

\* the response of an evaluation on its own over the definitions, the
\* context and the value set: what the evaluation that ends must answer
AnswersAs(r) ==
    /\ http' = r.http
    /\ results' = r.results
    /\ summary' = r.summary
    /\ missing_refs' = r.missing_refs

SameJudgment(r) ==
    /\ r.http = http
    /\ r.results = results
    /\ r.summary = summary

\* C16: the response of the judge route of functions/api/[[path]].js to a
\* request has the same results and the same summary (and the same HTTP
\* status) under every law store; meta.missing_refs alone depends on the
\* store.
C16_LawsDoNotJudge ==
    (pc = "done" /\ call = "cf_judge") =>
        \A other \in LawStores :
           SameJudgment(cfJudge(checklist, engine, ctx, rawValues, other))

\* two items were judged without a law store and the codes of their refs
\* are reported missing, each once; under the store that has both laws
\* none is
C16_Witness ==
    /\ pc = "done"
    /\ call = "cf_judge"
    /\ http = 200
    /\ laws = NoLaws
    /\ Len(results) = 2
    /\ missing_refs = <<L2, L1>>
    /\ cfJudge(checklist, engine, ctx, rawValues,
               LawStore(Put(Put(NoValues, L1, LawRecord), L2, LawRecord))).missing_refs = <<>>

\* two characters are the same letter, in whatever case
SameLetter(c, d) ==
    \/ c = d
    \/ \E i \in 1..Len(UpperChars) : {c, d} = {UpperChars[i], LowerChars[i]}

\* two texts differ in the case of their letters at most
SameButCase(a, b) ==
    /\ a.t = "string"
    /\ b.t = "string"
    /\ Len(a.s) = Len(b.s)
    /\ \A i \in 1..Len(a.s) : SameLetter(a.s[i], b.s[i])

\* C17: normalizeStatus is idempotent (normalizing what it returned
\* returns the same), it returns the same for two texts that differ in
\* the case of their letters only, and it returns for warn what it returns
\* for conditional.
C17_NormalizeStatus ==
    (pc = "done" /\ call = "normalizeStatus") =>
        /\ normalizeStatus(Str(ret)) = ret
        /\ \A other \in StatusInputs :
              SameButCase(arg, other) => normalizeStatus(other) = ret
        /\ SameButCase(arg, Str(WARN)) => ret = normalizeStatus(Str(CONDITIONAL))

\* WARN in upper case behind a space is conditional
C17_Witness ==
    /\ pc = "done"
    /\ call = "normalizeStatus"
    /\ arg = Str(<<" ","W","A","R","N">>)
    /\ ret = CONDITIONAL

\* the operator C18 pairs an operator with
NegatedOp(op) ==
    CASE op = OP_MISSING -> OP_PRESENT
      [] op = OP_PRESENT -> OP_MISSING
      [] op = OP_IN -> OP_NOT_IN
      [] op = OP_NOT_IN -> OP_IN

\* the value the condition of the call reads
ActualValue == Get(rawValues, Trim(StringOf(arg.key)))

\* the text of the actual value is the text of a member of the list
AmongTexts(list) == \E i \in 1..Len(list) : StringOf(list[i]) = StringOf(ActualValue)

\* C18: on every key, value set and target, a condition with the operator
\* missing, present, in or not_in is true exactly when the same condition
\* with the paired operator (present, missing, not_in, in) is false; and
\* in, on a list, is true exactly when the text of the actual value is the
\* text of a member of the list.
C18_Complements ==
    (pc = "done" /\ call = "evalCond" /\ arg \in CondInputs) =>
        /\ ret = ~evalCond([arg EXCEPT !.op = Str(NegatedOp(arg.op.s))], rawValues)
        /\ (arg.op = Str(OP_IN) /\ arg.value.t = "array") => (ret = AmongTexts(arg.value.a))
        /\ (arg.op = Str(OP_NOT_IN) /\ arg.value.t = "array") => (ret = ~AmongTexts(arg.value.a))

\* floors is the number 3 and the list holds the text "3": in is true
C18_Witness ==
    /\ pc = "done"
    /\ call = "evalCond"
    /\ arg = Cond(Str(K_FLOORS), Str(OP_IN), Arr(<<Str(<<"3">>), Str(<<" ">>)>>))
    /\ Get(rawValues, K_FLOORS) = Num(3)
    /\ ret = TRUE

\* a value is missing as the specification has it: absent, a number that
\* is not finite, or a text that is empty once trimmed
MissingValue(v) ==
    \/ v.t \in {"undefined", "null", "nan"}
    \/ v.t = "string" /\ Trim(v.s) = <<>>

\* an input is structured, its key is not among the optional inputs of
\* the entry, and its value is missing
StructuredAndMissing(inp, eng) ==
    /\ inp.t = "object"
    /\ \A o \in 1..Len(eng.optional_inputs) :
          StringOf(eng.optional_inputs[o]) # StringOf(inp.key)
    /\ MissingValue(Get(values, StringOf(inp.key)))

\* the keys of a list of inputs, in its order
KeysOf(inputs) == [i \in 1..Len(inputs) |-> StringOf(inputs[i].key)]

\* the keys of a list of missing inputs, in its order
ListedKeys(missing_inputs) == [m \in 1..Len(missing_inputs) |-> missing_inputs[m].key]

\* the keys C19 expects in missing_inputs, in declaration order
ExpectedMissing(item, eng) ==
    LET Expected(inp) == StructuredAndMissing(inp, eng)
    IN  KeysOf(SelectSeq(item.inputs, Expected))

\* C19: the missing_inputs of every item judged by the route of
\* functions/api/[[path]].js name, in the declaration order of the item's
\* inputs, exactly the structured inputs whose key is not in
\* optional_inputs and whose value is absent, a non-finite number or empty
\* once trimmed.
C19_MissingInputsExact ==
    CfJudged =>
        \A k \in 1..Len(results) :
           ListedKeys(results[k].missing_inputs) =
              ExpectedMissing(checklist[KeptItems[k]], EntryOf(results[k].id))

\* an item declares the bare key floors and then the structured input
\* road_width_m, none optional and none with a value: missing_inputs names
\* floors and then road_width_m
C19_Witness ==
    /\ CfJudged
    /\ Len(checklist) = 1
    /\ checklist[1].inputs = <<BareInput(Str(K_FLOORS)), Input(Str(K_ROAD_WIDTH_M), Undefined)>>
    /\ values = Put(NoValues, K_ZONING, Str(Z_R1))
    /\ Len(results) = 1
    /\ EntryOf(results[1].id).optional_inputs = <<>>
    /\ ListedKeys(results[1].missing_inputs) = <<K_FLOORS, K_ROAD_WIDTH_M>>

\* the keys an item declares as bare strings and not as structured inputs
BareKeys(item) ==
    {StringOf(item.inputs[i].key) : i \in {j \in 1..Len(item.inputs) : item.inputs[j].t = "string"}}
    \ {StringOf(item.inputs[i].key) : i \in {j \in 1..Len(item.inputs) : item.inputs[j].t = "object"}}

\* a judged item names no bare key of its item as missing
SkipsBare(res, item) == \A key \in BareKeys(item) : ~Lists(res.missing_inputs, key)

\* C20: no item returned by a judge route, of functions/api/[[path]].js or
\* of functions/index.js, has in missing_inputs a key its checklist item
\* declares as a bare string, and the summary's missing_inputs has none
\* either, whatever the values.
C20_BareInputsSkipped ==
    /\ CfJudged =>
          /\ \A k \in 1..Len(results) : SkipsBare(results[k], checklist[KeptItems[k]])
          /\ \A key \in Members(summary.missing_inputs) :
                \E k \in 1..Len(results) : key \notin BareKeys(checklist[KeptItems[k]])
    /\ IdxJudged =>
          \A k \in 1..Len(results) : SkipsBare(results[k], checklist[IdxKeptItems[k]])

\* the route of functions/api/[[path]].js judged an item that declares the
\* bare key floors, floors being a blank text: the item's missing_inputs
\* and the summary's name floors
C20_Witness ==
    /\ CfJudged
    /\ Len(checklist) = 1
    /\ Len(checklist[1].inputs) = 2
    /\ checklist[1].inputs[1] = BareInput(Str(K_FLOORS))
    /\ Get(values, K_FLOORS) = Str(<<" ">>)
    /\ Len(results) = 1
    /\ Len(results[1].missing_inputs) >= 1
    /\ results[1].missing_inputs[1].key = K_FLOORS
    /\ summary.missing_inputs[1] = K_FLOORS

\* every condition of a list holds on the values of the call
AllHold(conds) == \A i \in 1..Len(conds) : evalCond(conds[i], rawValues)

\* some condition of a list holds on the values of the call
SomeHolds(conds) == \E i \in 1..Len(conds) : evalCond(conds[i], rawValues)

\* C21: ruleMatches applies the first applicable form only.  When
\* rule.when is set, it returns what the condition when evaluates to,
\* whatever when_all and when_any hold, and false when when is malformed;
\* otherwise, when when_all is a non-empty list, it returns whether every
\* member holds; otherwise, when when_any is a non-empty list, whether
\* some member holds; and false for a rule with none of these.
C21_FirstFormOnly ==
    (pc = "done" /\ call = "ruleMatches" /\ arg.t = "object") =>
        IF arg.when.t # "undefined" THEN ret = evalCond(arg.when, rawValues)
        ELSE IF arg.when_all # <<>> THEN ret = AllHold(arg.when_all)
        ELSE IF arg.when_any # <<>> THEN ret = SomeHolds(arg.when_any)
        ELSE ret = FALSE

\* when lacks its op, when_all and when_any hold on 6 floors: no match
C21_Witness ==
    /\ pc = "done"
    /\ call = "ruleMatches"
    /\ arg.t = "object"
    /\ arg.when = Cond(Str(K_FLOORS), Undefined, Num(5))
    /\ arg.when_all = <<floorsGte5>>
    /\ arg.when_any = <<floorsGte5>>
    /\ Get(rawValues, K_FLOORS) = Num(MaxNum)
    /\ ret = FALSE

\* the value and the target of the condition of the call both parse as
\* finite numbers
BothNumbers == toNum(ActualValue) # Null /\ toNum(arg.value) # Null

\* the value and the target are equal as C22 has it: as numbers when
\* both parse as finite numbers, as trimmed texts otherwise
EqualAsStated ==
    IF BothNumbers THEN toNum(ActualValue).n = toNum(arg.value).n
    ELSE Trim(StringOf(ActualValue)) = Trim(StringOf(arg.value))

\* C22: a condition with op eq is true exactly when the actual value and
\* the target are equal as numbers, both parsing as finite numbers, or
\* else as trimmed texts; a condition with op neq is true exactly when
\* they are not.
C22_EqTrimmed ==
    (pc = "done" /\ call = "evalCond" /\ arg.t = "object" /\ Truthy(arg.key)) =>
        /\ (arg.op = Str(OP_EQ)) => (ret = EqualAsStated)
        /\ (arg.op = Str(OP_NEQ)) => (ret = ~EqualAsStated)

\* floors is a text with white space around it and the target is the
\* same text without: eq is false
C22_Witness ==
    /\ pc = "done"
    /\ call = "evalCond"
    /\ arg = Cond(Str(K_FLOORS), Str(OP_EQ), Str(Z_R1))
    /\ Get(rawValues, K_FLOORS) = Str(Z_R1_PADDED)
    /\ ret = FALSE

\* the condition of the call lacks key or op
LacksKeyOrOp == arg.t # "object" \/ ~Truthy(arg.key) \/ ~Truthy(arg.op)

\* C23: evalCond returns false for a condition that lacks key or op, and
\* for a condition with op lt, lte, gt or gte whose actual value or target
\* does not parse as a finite number, an absent value included; the call
\* returns a boolean in every case (no error is raised).
C23_MalformedIsFalse ==
    (pc = "done" /\ call = "evalCond") =>
        /\ ret \in BOOLEAN
        /\ LacksKeyOrOp => (ret = FALSE)
        /\ ( /\ ~LacksKeyOrOp
             /\ arg.op.s \in {OP_LT, OP_LTE, OP_GT, OP_GTE}
             /\ ~BothNumbers ) => (ret = FALSE)

\* floors is absent and the condition is floors <= 3: false
C23_Witness ==
    /\ pc = "done"
    /\ call = "evalCond"
    /\ arg = Cond(Str(K_FLOORS), Str(OP_LTE), Num(3))
    /\ rawValues = NoValues
    /\ ret = FALSE

\* the message a rule states: its message as a trimmed text, no text when
\* it has none
StatedMessage(rule) == Trim(StringOf(OrElse(rule.message, Str(<<>>))))

\* the default message of a rule-engine entry
EntryDefaultMessage(eng) ==
    Trim(StringOf(OrElse(eng.rule_set.default_message, Str(DEFAULT_MESSAGE))))

\* some rule of the entry matches the value set
SomeRuleMatches(eng, vals) == Matching(eng.auto_rules, vals) # {}

\* C24: the message of an item the judge route of
\* functions/api/[[path]].js returns is the message of the selected rule
\* when some rule of its entry matches, whatever that message is, and the
\* default message of the entry only when no rule matches.
C24_MessageOfMatchedRule ==
    CfJudged =>
        \A k \in 1..Len(results) :
           \A eng \in {EntryOf(results[k].id)} :
              IF SomeRuleMatches(eng, values)
              THEN results[k].message = StatedMessage(SelectedRule(eng.auto_rules, values))
              ELSE results[k].message = EntryDefaultMessage(eng)

\* the rule {floors lt 5 -> allow}, which states no message, is the rule
\* selected, and the item carries the default message of its entry
C24_Witness ==
    /\ CfJudged
    /\ Len(engine) = 1
    /\ engine[1].auto_rules = <<RuleAllow0>>
    /\ engine[1].rule_set.default_message = Str(<<"m","0">>)
    /\ Get(values, K_FLOORS) = Num(3)
    /\ Len(results) = 1
    /\ results[1].status = ALLOW
    /\ results[1].message = <<"m","0">>

\* the rules and the default of an entry resolve to need_input
ResolvesToNeedInput(eng, vals) ==
    ResolvedFrom(eng, vals, OrElse(eng.rule_set.default_result, Str(CONDITIONAL))) = NEED_INPUT

\* C25: an item whose rules or default resolve to need_input while none of
\* its required inputs is missing is returned by the judge route of
\* functions/api/[[path]].js as conditional with the default message of
\* its entry, whether need_input came from a matched rule or from the
\* default result.
C25_DowngradeHasDefaultMessage ==
    CfJudged =>
        \A k \in 1..Len(results) :
           \A eng \in {EntryOf(results[k].id)} :
              (ResolvesToNeedInput(eng, values) /\ results[k].missing_inputs = <<>>) =>
                 /\ results[k].status = CONDITIONAL
                 /\ results[k].message = EntryDefaultMessage(eng)

\* the rule {floors missing -> need_input, message "mD"} matches on an item
\* without inputs: the item is downgraded to conditional and keeps the
\* message of the rule
C25_Witness ==
    /\ CfJudged
    /\ Len(checklist) = 1
    /\ checklist[1].inputs = <<>>
    /\ Len(engine) = 1
    /\ engine[1].auto_rules = <<RuleNeedInput7>>
    /\ engine[1].rule_set.default_message = Str(<<"m","0">>)
    /\ Get(values, K_FLOORS) = Undefined
    /\ Len(results) = 1
    /\ results[1].status = CONDITIONAL
    /\ results[1].missing_inputs = <<>>
    /\ results[1].message = <<"m","D">>

\* the condition {key, op: "missing"} on the key of the condition handed
\* to evalCond is true on the value set
KeyIsMissing == evalCond(Cond(arg.key, Str(OP_MISSING), Undefined), rawValues)

\* the condition handed to evalCond has a key and a numeric comparison
NumericComparison ==
    /\ arg.t = "object"
    /\ Truthy(arg.key)
    /\ arg.op \in {Str(OP_LT), Str(OP_LTE), Str(OP_GT), Str(OP_GTE)}

\* C30: for every key, value set and target, when the condition
\* {key, op: "missing"} is true, evalCond returns false for the conditions
\* lt, lte, gt and gte on that key.
C30_MissingNeverCompares ==
    (pc = "done" /\ call = "evalCond" /\ NumericComparison /\ KeyIsMissing) =>
        (ret = FALSE)

\* floors is the blank text " ": the value is missing, and floors lte 3
\* holds, the blank text counting as the number 0
C30_Witness ==
    /\ pc = "done"
    /\ call = "evalCond"
    /\ arg = Cond(Str(K_FLOORS), Str(OP_LTE), Num(3))
    /\ rawValues = Put(NoValues, K_FLOORS, Str(<<" ">>))
    /\ KeyIsMissing
    /\ ret = TRUE

\* the metrics of a context and of a value set are the same numbers, or
\* are unknown in both
SameMetrics(c, vals) ==
    /\ toNum(c.floors) = toNum(Get(vals, K_FLOORS))
    /\ toNum(c.height_m) = toNum(Get(vals, K_HEIGHT_M))
    /\ toNum(c.gross_area_m2) = toNum(Get(vals, K_GROSS_AREA_M2))

\* C28: in the judge route of functions/api/[[path]].js, each of floors,
\* height_m and gross_area_m2 has the same value in the context the
\* applies_to filter runs on and in the merged value set the rules are
\* evaluated on, also when the context and the value set of the request
\* state different values for it.
C28_FilterAndRulesSameMetric ==
    CfJudged => SameMetrics(ctxForFilter(ctx, values), values)

\* the context states 3 floors and the value set 6: the item with
\* min_floors 5 is filtered out on the 3 floors of the context, while the
\* merged value set holds 6 floors
C28_Witness ==
    /\ CfJudged
    /\ ctx.floors = Num(3)
    /\ Get(rawValues, K_FLOORS) = Num(MaxNum)
    /\ Get(values, K_FLOORS) = Num(MaxNum)
    /\ ctxForFilter(ctx, values).floors = Num(3)
    /\ Len(checklist) = 1
    /\ checklist[1].applies_to = MinFloorsAndArea5
    /\ results = <<>>

\* what evaluateFirstMatch of functions/index.js returns, or raises, on
\* the rule list and the value set of the call
ServerMatch ==
    IF sortThrows(engine[1].auto_rules) THEN Threw
    ELSE evaluateFirstMatch(engine[1].auto_rules, rawValues)

\* the frontend's answer is the server's: no match or an error on both
\* sides, or a match with the same result, message, rule_id and priority
SameMatch(server, front) ==
    IF server.t = "hit"
    THEN /\ front.t = "hit"
         /\ front.result = server.result
         /\ front.message = Str(server.message)
         /\ front.rule_id = server.rule_id
         /\ front.priority = server.priority
    ELSE front = server

\* the frontend's answer is built from the rule the server selects
FromSelectedRule(front) ==
    \E i \in 1..Len(engine[1].auto_rules) :
       /\ IsSelected(engine[1].auto_rules, rawValues, i)
       /\ front.rule_id = OrElse(engine[1].auto_rules[i].id, Null)
       /\ front.message = engine[1].auto_rules[i].message

\* C26: for every rule list and value set, evaluateAutoRules of
\* public/script.js and evaluateFirstMatch of functions/index.js both
\* return no match, or they select the same rule and return the same
\* result, message, rule_id and priority.
C26_FrontendAsServer ==
    (pc = "done" /\ call = "evaluateAutoRulesFront") =>
        /\ SameMatch(ServerMatch, ret)
        /\ ret.t = "hit" => FromSelectedRule(ret)

\* the rule {floors lt 5 -> allow}, which states no message, matches: the
\* frontend returns the message undefined, the server the empty text
C26_Witness ==
    /\ pc = "done"
    /\ call = "evaluateAutoRulesFront"
    /\ engine[1].auto_rules = <<RuleAllow0>>
    /\ Get(rawValues, K_FLOORS) = Num(3)
    /\ ServerMatch.t = "hit"
    /\ ServerMatch.message = <<>>
    /\ ret.t = "hit"
    /\ ret.result = ALLOW
    /\ ret.message = Undefined

\* the file can be read and its text parsed
Loadable == file.exists /\ jsonParse(file.raw).ok

\* readJsonFileSafe has returned and the file has not changed since
Loaded == pc = "done" /\ call = "readJsonFileSafe"

\* C27: over every sequence of writes, removals and loads of the file,
\* readJsonFileSafe returns the data of the cache entry only while the
\* modification time of the file is that of the entry; a load returns the
\* content of the file as it is at the load, never content cached before
\* the file changed; and a load of a file that cannot be read or parsed
\* returns the fallback.
C27_CacheFollowsSource ==
    Loaded =>
        /\ (jsonCache.present /\ ret = jsonCache.data) => (file.exists /\ jsonCache.mtimeMs = file.mtimeMs)
        /\ Loadable => (ret = jsonParse(file.raw).data)
        /\ ~Loadable => (ret = arg)

\* the file holds "2", written after the load that cached 1 and within
\* the same modification time: the load returns the 1 of the cache
C27_Witness ==
    /\ Loaded
    /\ file = File(1, <<"2">>)
    /\ jsonCache = CacheEntry(1, Num(1))
    /\ ret = Num(1)

\* the answer of the judge route to the request of the enriched route:
\* the same definitions and context, and no values
JudgeAnswer == cfJudge(checklist, engine, ctx, NoValues, laws)

\* an item of the enriched route states what a judged item states
SameItem(e, j) ==
    /\ idOf(e.item) = j.id
    /\ e.server_judge.result = j.status
    /\ e.server_judge.message = j.message
    /\ e.server_judge.rule_id = j.matched_rule_id
    /\ e.missing_inputs = j.missing_inputs

\* C29: on the same definitions and the same context, the request stating
\* no values, the enriched route and the judge route of
\* functions/api/[[path]].js return the same items, and the
\* server_judge.result, server_judge.message, server_judge.rule_id and
\* missing_inputs of an item are the status, message, matched_rule_id and
\* missing_inputs the judge route returns for it.
C29_EnrichedAsJudge ==
    (pc = "done" /\ call = "cf_enriched") =>
        \A j \in {JudgeAnswer} :
           /\ http = j.http
           /\ Len(results) = Len(j.results)
           /\ \A k \in 1..Len(results) : SameItem(results[k], j.results[k])

\* the context states the zoning R1 and a rule denies on zoning eq R1:
\* the enriched route, whose value set holds no zoning, returns the
\* default conditional, the judge route deny
C29_Witness ==
    /\ pc = "done"
    /\ call = "cf_enriched"
    /\ http = 200
    /\ ctx.zoning = Str(Z_R1)
    /\ Len(engine) = 1
    /\ engine[1].auto_rules = <<RuleZoningR1>>
    /\ Len(results) = 1
    /\ results[1].server_judge.result = CONDITIONAL
    /\ Len(JudgeAnswer.results) = 1
    /\ JudgeAnswer.results[1].status = DENY

====
